---- MODULE Spec2Model ----
(***************************************************************************)
(* ChatAI-Free-Multimodel (cafm): the debate engine (debate_engine.py),    *)
(* the context manager (context_manager.py) and the Ollama client          *)
(* (ollama_client.py) as a state machine.  Texts are TLA+ strings, so      *)
(* lengths, concatenations and slices are the ones the Python code         *)
(* computes.                                                               *)
(***************************************************************************)
EXTENDS Integers, Sequences, FiniteSets, TLC

VARIABLES
    cfg,         \* ConfigManager._data as read by DebateEngine.run
    user_query,  \* DebateEngine.user_query
    transcript,  \* DebateEngine.transcript: sequence of DebateEntry
    pc,          \* position of run(): NotStarted, Summarizing, Generating, Appending, Completed
    rnd,         \* loop variable rnd of run() (n_rounds + 1 during the synthesis turn)
    idx,         \* loop variable idx of run()
    turn,        \* locals of the current turn: system prompt, prompt key, messages, content
    inflight,    \* the model call in progress (NoCall when there is none)
    result,      \* value returned by run() (NoResult until it returns)
    composed,    \* history: every prepare_messages invocation of the run
    calls,       \* history: every model call issued (ollama.chat), in issue order
    returns,     \* history: what each completed model call gave back
    runlog,      \* history: the run() calls made on this engine so far
    probe,       \* harness of the pure functions of context_manager.py
    cli          \* cli.py main_loop: its position, the last validation, Ollama's models

vars == <<cfg, user_query, transcript, pc, rnd, idx, turn, inflight, result,
          composed, calls, returns, runlog, probe, cli>>

engineVars == <<cfg, user_query, transcript, pc, rnd, idx, turn, inflight, result,
                composed, calls, returns, runlog>>

(***************************************************************************)
(* Bounds of the model.                                                    *)
(***************************************************************************)
MaxInstances == 4
MaxRounds == 2
MaxMsgs == 5
MaxEntries == 2
LimitStep == 9
MaxLimitSteps == 14
MaxChars == 9
MaxEstimated == 2

(***************************************************************************)
(* Program constants.                                                      *)
(***************************************************************************)
CHARS_PER_TOKEN == 4
ROLE_OVERHEAD == 4
SAFETY_MARGIN == 64
RESERVED_COUNT == 2

Min(a, b) == IF a < b THEN a ELSE b
Max(a, b) == IF a > b THEN a ELSE b

RECURSIVE Rep(_, _)
Rep(s, n) == IF n <= 0 THEN "" ELSE s \o Rep(s, n - 1)

(***************************************************************************)
(* context_manager.py                                                      *)
(***************************************************************************)
\* estimate_tokens without the minimum of 1.
estimate_tokens_NoMinimum(text) == Len(text) \div CHARS_PER_TOKEN

estimate_tokens(text) == Max(1, Len(text) \div CHARS_PER_TOKEN)

\* The loop of lines 19-23: total[k] is the total after k messages.
estimate_messages_tokens(messages) ==
    LET total[k \in 0..Len(messages)] ==
            IF k = 0 THEN 0
            ELSE total[k - 1] + (ROLE_OVERHEAD + estimate_tokens(messages[k].content))
    IN total[Len(messages)]

\* One line of build_transcript: header, colon, content.
TranscriptLine(e) ==
    "[" \o e.model \o " - Round " \o ToString(e.round) \o "]" \o ":\n" \o e.content \o "\n"

\* "\n".join(lines)
JoinLines(lines) ==
    LET joined[k \in 0..Len(lines)] ==
            IF k = 0 THEN ""
            ELSE IF k = 1 THEN lines[1]
            ELSE joined[k - 1] \o "\n" \o lines[k]
    IN joined[Len(lines)]

build_transcript(entries) ==
    JoinLines([i \in 1..Len(entries) |-> TranscriptLine(entries[i])])

\* WalkStep without the budget test of line 62: every message is included.
WalkStep_NoBudgetTest(w, msg) ==
    [budget |-> w.budget - estimate_messages_tokens(<<msg>>),
     included |-> <<msg>> \o w.included, done |-> FALSE]

\* WalkStep going on to the older messages (continue) where line 63 breaks.
WalkStep_SkipsWhatOverflows(w, msg) ==
    IF w.budget - estimate_messages_tokens(<<msg>>) < 0
    THEN w
    ELSE [budget |-> w.budget - estimate_messages_tokens(<<msg>>),
          included |-> <<msg>> \o w.included, done |-> FALSE]

\* One iteration of the loop of lines 60-65 on msg; done is set by the break.
WalkStep(w, msg) ==
    IF w.done \/ w.budget - estimate_messages_tokens(<<msg>>) < 0
    THEN [w EXCEPT !.done = TRUE]
    ELSE [budget |-> w.budget - estimate_messages_tokens(<<msg>>),
          included |-> <<msg>> \o w.included, done |-> FALSE]

\* The backward walk of sliding_window (lines 59-65) over reversed(rest):
\* walk[k] is the loop's state after the k most recent messages.
WalkBack(rest, budget) ==
    LET walk[k \in 0..Len(rest)] ==
            IF k = 0 THEN [budget |-> budget, included |-> <<>>, done |-> FALSE]
            ELSE WalkStep(walk[k - 1], rest[Len(rest) - k + 1])
    IN walk[Len(rest)].included

\* The budget of line 54 with the safety margin added instead of subtracted.
SlidingBudget_MarginAdded(messages, limit) ==
    limit - estimate_messages_tokens(SubSeq(messages, 1, Min(RESERVED_COUNT, Len(messages))))
          + SAFETY_MARGIN

SlidingBudget(messages, limit) ==
    limit - estimate_messages_tokens(SubSeq(messages, 1, Min(RESERVED_COUNT, Len(messages))))
          - SAFETY_MARGIN

\* sliding_window reserving the first three messages instead of two.
sliding_window_ReservesThree(messages, limit) ==
    IF messages = <<>> THEN messages
    ELSE LET reserved == SubSeq(messages, 1, Min(RESERVED_COUNT + 1, Len(messages)))
             rest == SubSeq(messages, RESERVED_COUNT + 2, Len(messages))
             budget == limit - estimate_messages_tokens(reserved) - SAFETY_MARGIN
         IN IF budget <= 0 THEN reserved
            ELSE reserved \o WalkBack(rest, budget)

\* sliding_window returning nothing when no budget is left for the rest.
sliding_window_EmptyOnNoBudget(messages, limit) ==
    IF messages = <<>> THEN messages
    ELSE LET reserved == SubSeq(messages, 1, Min(RESERVED_COUNT, Len(messages)))
             rest == SubSeq(messages, RESERVED_COUNT + 1, Len(messages))
             budget == SlidingBudget(messages, limit)
         IN IF budget <= 0 THEN <<>>
            ELSE reserved \o WalkBack(rest, budget)

sliding_window(messages, limit) ==
    IF messages = <<>> THEN messages
    ELSE LET reserved == SubSeq(messages, 1, Min(RESERVED_COUNT, Len(messages)))
             rest == SubSeq(messages, RESERVED_COUNT + 1, Len(messages))
             budget == SlidingBudget(messages, limit)
         IN IF budget <= 0 THEN reserved
            ELSE reserved \o WalkBack(rest, budget)

SUMMARIZER_PROMPT ==
    "You are a concise summarizer. Compress the following debate "
    \o "transcript into a brief summary that preserves every key argument, "
    \o "point of agreement, and point of contention. Use bullet points."

\* The marker of line 99, 33 characters; its two U+2026 ellipsis characters are
\* written "~" here (one character each, as in the source).
TRUNCATION_MARKER == "~[earlier transcript truncated]~\n"

\* The messages summarize_transcript hands to summary_func.
SummaryPrompt(entries) ==
    << [role |-> "system", content |-> SUMMARIZER_PROMPT],
       [role |-> "user", content |-> build_transcript(entries)] >>

\* Python's full[-max_chars:]: the last max_chars characters; the whole text
\* when max_chars is 0 (full[-0:] is full[0:]); and for a negative max_chars
\* the text without its first -max_chars characters (full[k:], k = -max_chars).
TailChars(full, max_chars) ==
    IF max_chars = 0 THEN full
    ELSE IF max_chars < 0
    THEN SubSeq(full, Min(Len(full), 0 - max_chars) + 1, Len(full))
    ELSE SubSeq(full, Max(1, Len(full) - max_chars + 1), Len(full))

\* summary_func is a callable: outcome says what it does when it is called,
\* [raises |-> TRUE] or [raises |-> FALSE, text |-> its return value].
summarize_transcript(entries, outcome, limit) ==
    LET full == build_transcript(entries)
        max_chars == limit * CHARS_PER_TOKEN
    IN IF ~outcome.raises THEN outcome.text
       ELSE IF Len(full) > max_chars THEN TRUNCATION_MARKER \o TailChars(full, max_chars)
       ELSE full

NaiveMessages(system_prompt, query, entries) ==
    << [role |-> "system", content |-> system_prompt],
       [role |-> "user", content |-> "User Query: " \o query] >>
    \o (IF entries # <<>>
        THEN << [role |-> "user",
                 content |-> "Debate transcript so far:\n\n" \o build_transcript(entries)] >>
        ELSE <<>>)

\* SummaryMessages with the summary given the system role.
SummaryMessages_SummaryAsSystem(system_prompt, query, summary) ==
    << [role |-> "system", content |-> system_prompt],
       [role |-> "user", content |-> "User Query: " \o query],
       [role |-> "system", content |-> "Condensed debate summary:\n\n" \o summary] >>

SummaryMessages(system_prompt, query, summary) ==
    << [role |-> "system", content |-> system_prompt],
       [role |-> "user", content |-> "User Query: " \o query],
       [role |-> "user", content |-> "Condensed debate summary:\n\n" \o summary] >>

\* Whether prepare_messages reaches the call of summarize_transcript (line 133).
UsesSummarizer(system_prompt, query, entries, context_limit, strategy, has_func) ==
    /\ estimate_messages_tokens(NaiveMessages(system_prompt, query, entries)) > context_limit
    /\ strategy = "summary"
    /\ has_func

\* prepare_messages handing the summarizer the whole context_limit instead of
\* its half.
prepare_messages_WholeLimitToSummarizer(system_prompt, query, entries, context_limit, strategy, has_func, outcome) ==
    LET naive == NaiveMessages(system_prompt, query, entries)
        total == estimate_messages_tokens(naive)
    IN IF total <= context_limit
       THEN [messages |-> naive, path |-> "happy", summarizer_calls |-> 0, window_calls |-> 0]
       ELSE IF strategy = "summary" /\ has_func
       THEN LET summary == summarize_transcript(entries, outcome, context_limit)
                condensed == SummaryMessages(system_prompt, query, summary)
            IN IF estimate_messages_tokens(condensed) <= context_limit
               THEN [messages |-> condensed, path |-> "summary",
                     summarizer_calls |-> 1, window_calls |-> 0]
               ELSE [messages |-> sliding_window(condensed, context_limit),
                     path |-> "summary_then_window",
                     summarizer_calls |-> 1, window_calls |-> 1]
       ELSE [messages |-> sliding_window(naive, context_limit), path |-> "sliding_window",
             summarizer_calls |-> 0, window_calls |-> 1]

\* prepare_messages returning the summary composition without the test of
\* line 146.
prepare_messages_NoSecondLine(system_prompt, query, entries, context_limit, strategy, has_func, outcome) ==
    LET naive == NaiveMessages(system_prompt, query, entries)
        total == estimate_messages_tokens(naive)
    IN IF total <= context_limit
       THEN [messages |-> naive, path |-> "happy", summarizer_calls |-> 0, window_calls |-> 0]
       ELSE IF strategy = "summary" /\ has_func
       THEN LET summary == summarize_transcript(entries, outcome, context_limit \div 2)
            IN [messages |-> SummaryMessages(system_prompt, query, summary), path |-> "summary",
                summarizer_calls |-> 1, window_calls |-> 0]
       ELSE [messages |-> sliding_window(naive, context_limit), path |-> "sliding_window",
             summarizer_calls |-> 0, window_calls |-> 1]

\* prepare_messages trying the summary strategy before the test of line 129.
prepare_messages_SummarizesFirst(system_prompt, query, entries, context_limit, strategy, has_func, outcome) ==
    LET naive == NaiveMessages(system_prompt, query, entries)
        total == estimate_messages_tokens(naive)
    IN IF strategy = "summary" /\ has_func
       THEN LET summary == summarize_transcript(entries, outcome, context_limit \div 2)
                condensed == SummaryMessages(system_prompt, query, summary)
            IN IF estimate_messages_tokens(condensed) <= context_limit
               THEN [messages |-> condensed, path |-> "summary",
                     summarizer_calls |-> 1, window_calls |-> 0]
               ELSE [messages |-> sliding_window(condensed, context_limit),
                     path |-> "summary_then_window",
                     summarizer_calls |-> 1, window_calls |-> 1]
       ELSE IF total <= context_limit
       THEN [messages |-> naive, path |-> "happy", summarizer_calls |-> 0, window_calls |-> 0]
       ELSE [messages |-> sliding_window(naive, context_limit), path |-> "sliding_window",
             summarizer_calls |-> 0, window_calls |-> 1]

\* prepare_messages: the messages it returns, the path it took, how many times
\* it called the summarizer and how many times sliding_window.
prepare_messages(system_prompt, query, entries, context_limit, strategy, has_func, outcome) ==
    LET naive == NaiveMessages(system_prompt, query, entries)
        total == estimate_messages_tokens(naive)
    IN IF total <= context_limit
       THEN [messages |-> naive, path |-> "happy", summarizer_calls |-> 0, window_calls |-> 0]
       ELSE IF strategy = "summary" /\ has_func
       THEN LET summary == summarize_transcript(entries, outcome, context_limit \div 2)
                condensed == SummaryMessages(system_prompt, query, summary)
            IN IF estimate_messages_tokens(condensed) <= context_limit
               THEN [messages |-> condensed, path |-> "summary",
                     summarizer_calls |-> 1, window_calls |-> 0]
               ELSE [messages |-> sliding_window(condensed, context_limit),
                     path |-> "summary_then_window",
                     summarizer_calls |-> 1, window_calls |-> 1]
       ELSE [messages |-> sliding_window(naive, context_limit), path |-> "sliding_window",
             summarizer_calls |-> 0, window_calls |-> 1]

(***************************************************************************)
(* Harness of the pure functions: an input is drawn, then the function is  *)
(* applied to it.                                                          *)
(***************************************************************************)
FragmentPool ==
    { [role |-> "system", content |-> ""],
      [role |-> "user", content |-> "abcdefgh"],
      [role |-> "user", content |-> Rep("0123456789", 4)],
      [role |-> "user", content |-> Rep("0123456789", 30)] }

MsgLists == UNION { [1..n -> FragmentPool] : n \in 0..MaxMsgs }

Limits == {0 - LimitStep, 0} \cup { k * LimitStep : k \in 1..MaxLimitSteps }

EntryPool ==
    { [model |-> "m1", round |-> 1, content |-> "Yes."],
      [model |-> "m2", round |-> 2, content |-> Rep("because ", 6)],
      [model |-> "m3", round |-> 2, content |-> Rep("on the other hand, ", 16)] }

EntryLists == UNION { [1..n -> EntryPool] : n \in 0..MaxEntries }

ProbePrompts == {"", "Be brief."}
ProbeQueries == {"Why?"}
\* The two strategies the code names, and a value it does not know.
Strategies == {"sliding_window", "summary", "best_fit"}

\* What a summarizer callable can do: return a short text, return a long text,
\* or raise.
SummarizerOutcomes ==
    { [raises |-> FALSE, text |-> "- agreed"],
      [raises |-> FALSE, text |-> Rep("- a point of contention\n", 12)],
      [raises |-> TRUE, text |-> ""] }

NoOutcome == [raises |-> FALSE, text |-> ""]

NoOutput == [messages |-> <<>>, path |-> "none", summarizer_calls |-> 0, window_calls |-> 0]

WindowInputs ==
    { [op |-> "sliding_window", msgs |-> m, limit |-> l, system_prompt |-> "", query |-> "",
       entries |-> <<>>, strategy |-> "sliding_window", has_func |-> FALSE,
       outcome |-> NoOutcome] : m \in MsgLists, l \in Limits }

PrepareInputs ==
    { [op |-> "prepare_messages", msgs |-> <<>>, limit |-> l, system_prompt |-> sp,
       query |-> q, entries |-> e, strategy |-> st, has_func |-> hf, outcome |-> o] :
         l \in Limits, sp \in ProbePrompts, q \in ProbeQueries, e \in EntryLists,
         st \in Strategies, hf \in BOOLEAN, o \in SummarizerOutcomes }

SummarizeInputs ==
    { [op |-> "summarize_transcript", msgs |-> <<>>, limit |-> l, system_prompt |-> "",
       query |-> "", entries |-> e, strategy |-> "summary", has_func |-> TRUE,
       outcome |-> o] : l \in Limits, e \in EntryLists, o \in SummarizerOutcomes }

\* Message lists of up to MaxEstimated messages with contents of 0..MaxChars
\* characters.
EstimateInputs ==
    { [op |-> "estimate_messages_tokens", msgs |-> m, limit |-> 0, system_prompt |-> "",
       query |-> "", entries |-> <<>>, strategy |-> "sliding_window", has_func |-> FALSE,
       outcome |-> NoOutcome] :
         m \in UNION { [1..n -> { [role |-> "user", content |-> Rep("a", l)] : l \in 0..MaxChars }] :
                         n \in 0..MaxEstimated } }

NoProbe ==
    [applied |-> FALSE, out |-> NoOutput,
     in |-> [op |-> "none", msgs |-> <<>>, limit |-> 0, system_prompt |-> "", query |-> "",
             entries |-> <<>>, strategy |-> "sliding_window", has_func |-> FALSE,
             outcome |-> NoOutcome]]

ApplySlidingWindow ==
    /\ probe.in.op = "sliding_window"
    /\ ~probe.applied
    /\ probe' = [probe EXCEPT !.applied = TRUE,
                   !.out = [messages |-> sliding_window(probe.in.msgs, probe.in.limit),
                            path |-> "sliding_window",
                            summarizer_calls |-> 0, window_calls |-> 1]]
    /\ UNCHANGED <<engineVars, cli>>

ApplyPrepareMessages ==
    /\ probe.in.op = "prepare_messages"
    /\ ~probe.applied
    /\ probe' = [probe EXCEPT !.applied = TRUE,
                   !.out = prepare_messages(probe.in.system_prompt, probe.in.query,
                                            probe.in.entries, probe.in.limit,
                                            probe.in.strategy, probe.in.has_func,
                                            probe.in.outcome)]
    /\ UNCHANGED <<engineVars, cli>>

ApplyEstimate ==
    /\ probe.in.op = "estimate_messages_tokens"
    /\ ~probe.applied
    /\ probe' = [probe EXCEPT !.applied = TRUE,
                   !.out = [cost |-> estimate_messages_tokens(probe.in.msgs)]]
    /\ UNCHANGED <<engineVars, cli>>

\* summarize_transcript applied to the input: what it returns (it has no raise
\* of its own; the except of line 95 catches what summary_func raises).
ApplySummarizeTranscript ==
    /\ probe.in.op = "summarize_transcript"
    /\ ~probe.applied
    /\ probe' = [probe EXCEPT !.applied = TRUE,
                   !.out = [raised |-> FALSE,
                            text |-> summarize_transcript(probe.in.entries, probe.in.outcome,
                                                          probe.in.limit)]]
    /\ UNCHANGED <<engineVars, cli>>

(***************************************************************************)
(* debate_engine.py: detect_language                                       *)
(***************************************************************************)
\* Strings are kept in ASCII here. The characters U+00E1, U+00E9, U+00ED,
\* U+00F3, U+00FA, U+00FC, U+00F1 of the pattern (a, e, i, o, u with acute,
\* u with diaeresis, n with tilde) are written {  }  |  ^  !  $  #, their
\* upper-case forms %  &  *  +  =  <  >, and U+00BF, U+00A1 (inverted question
\* and exclamation mark) @ and ; -- one character each, as in the source, and
\* used for nothing else in the texts below.
UPPER_CHARS == "ABCDEFGHIJKLMNOPQRSTUVWXYZ%&*+=<>"
LOWER_CHARS == "abcdefghijklmnopqrstuvwxyz{}|^!$#"
OTHER_WORD_CHARS == "0123456789_"

CharAt(text, i) == SubSeq(text, i, i)

CharsOf(text) == { CharAt(text, i) : i \in 1..Len(text) }

LowerOf ==
    [c \in CharsOf(UPPER_CHARS) |->
        CharAt(LOWER_CHARS, CHOOSE i \in 1..Len(UPPER_CHARS) : CharAt(UPPER_CHARS, i) = c)]

\* re.IGNORECASE: a character is compared through its lower-case form.
Lower(c) == IF c \in DOMAIN LowerOf THEN LowerOf[c] ELSE c

LowerText(text) ==
    LET low[k \in 0..Len(text)] == IF k = 0 THEN "" ELSE low[k - 1] \o Lower(CharAt(text, k))
    IN low[Len(text)]

WORD_CHARS == CharsOf(UPPER_CHARS) \cup CharsOf(LOWER_CHARS) \cup CharsOf(OTHER_WORD_CHARS)

\* \w of the regular expression.
IsWordChar(c) == c \in WORD_CHARS

SPANISH_CHARS == {"{", "}", "|", "^", "!", "$", "#", "@", ";"}

SPANISH_WORDS ==
    {"que", "est{", "es", "en", "de", "la", "el", "los", "las", "con", "por", "para",
     "una", "uno", "pero", "como", "m{s", "tambi}n", "sobre", "muy", "tiene", "hacer",
     "qu}", "c^mo", "cu{l", "esto", "eso", "son", "hay", "si"}

\* The end of the run of word characters that starts at i.
WordEnd(text, i) ==
    LET last[k \in i..Len(text)] ==
            IF k < Len(text) /\ IsWordChar(CharAt(text, k + 1)) THEN last[k + 1] ELSE k
    IN last[i]

\* len(_SPANISH_RE.findall(text)), scanning from position i: at each position
\* the character class is tried first, then a listed word between two \b.
CountMatches(text, start) ==
    LET found[i \in start..(Len(text) + 1)] ==
            IF i > Len(text) THEN 0
            ELSE IF Lower(CharAt(text, i)) \in SPANISH_CHARS THEN 1 + found[i + 1]
            ELSE IF /\ IsWordChar(CharAt(text, i))
                    /\ (i = 1 \/ ~IsWordChar(CharAt(text, i - 1)))
                    /\ LowerText(SubSeq(text, i, WordEnd(text, i))) \in SPANISH_WORDS
                 THEN 1 + found[WordEnd(text, i) + 1]
            ELSE found[i + 1]
    IN found[start]

LANGUAGE_THRESHOLD == 2

detect_language(text) ==
    IF CountMatches(text, 1) >= LANGUAGE_THRESHOLD THEN "Spanish" ELSE "English"

\* lang_note without its second sentence.
lang_note_FirstSentenceOnly(language) ==
    "\n\nIMPORTANT: You MUST respond ENTIRELY in " \o language \o ". "

lang_note(language) ==
    "\n\nIMPORTANT: You MUST respond ENTIRELY in " \o language \o ". "
    \o "Do not switch languages under any circumstances."

(***************************************************************************)
(* ollama_client.py: chat_sync and chat_stream over a provider (ollama.chat)*)
(* that may raise.                                                         *)
(***************************************************************************)
PROVIDER_ERROR == "connection refused"

\* chat_sync line 90
SyncDiagnostic(model, exc) == "[ERROR] Model " \o model \o " failed: " \o exc

\* chat_stream line 72
StreamDiagnostic(model, exc) == "\n[ERROR] Model " \o model \o " failed: " \o exc \o "\n"

\* The chunks the provider produces for a call that goes well; an empty chunk
\* is one chat_stream does not yield (line 69).
ProviderChunks(model, kind) ==
    IF kind = "summary" THEN <<"- all agree", "">>
    ELSE <<"", "As " \o model, ": yes.">>

\* "".join(parts)
Concat(parts) ==
    LET joined[k \in 0..Len(parts)] == IF k = 0 THEN "" ELSE joined[k - 1] \o parts[k]
    IN joined[Len(parts)]

\* chat_sync: the full content, or the diagnostic when the provider raises.
chat_sync(model, kind, fails) ==
    IF fails THEN SyncDiagnostic(model, PROVIDER_ERROR)
    ELSE Concat(ProviderChunks(model, kind))

(***************************************************************************)
(* The configuration DebateEngine.run reads.                               *)
(***************************************************************************)
MaxTurns == 4
MaxFaults == 2
MaxRuns == 2
MaxRerunTurns == 2
SMALL_CONTEXT == 72
DEFAULT_CONTEXT == 4096

MODEL_POOL == <<"llama3.2", "qwen2.5", "mistral">>

\* DEFAULT_CONFIG["models"] cut or padded with its last model to n instances.
ConfiguredModels(n) ==
    [i \in 1..n |-> IF i <= Len(MODEL_POOL) THEN MODEL_POOL[i] ELSE MODEL_POOL[Len(MODEL_POOL)]]

\* The five templates, shortened; load() merges the file over the defaults,
\* so every key is present.
SystemPrompts ==
    [k \in {"initial_round", "debate_round", "skeptic_round", "skeptic_initial_round",
            "final_synthesis"} |->
        CASE k = "initial_round" -> "Give your view."
          [] k = "debate_round" -> "Refute the others."
          [] k = "skeptic_round" -> "Challenge them."
          [] k = "skeptic_initial_round" -> "Challenge the query."
          [] k = "final_synthesis" -> "Synthesize."]

\* An English query and a Spanish one (its U+00BF and U+00E9 written @ and }).
Queries == {"What is this and why?", "@Qu} es esto y por qu}?"}

ContextLimits == {SMALL_CONTEXT, DEFAULT_CONTEXT}

\* Context settings: limit, strategy and summary_model ("" stands for None,
\* the default); a summary model is set only where the strategy can use it.
ContextSettings ==
    { [limit |-> l, strategy |-> "sliding_window", summary_model |-> ""] : l \in ContextLimits }
    \cup { [limit |-> l, strategy |-> "summary", summary_model |-> ""] : l \in ContextLimits }
    \cup { [limit |-> SMALL_CONTEXT, strategy |-> "summary", summary_model |-> "phi3"] }

Configs ==
    { [instances |-> m, rounds |-> r, models |-> ConfiguredModels(m),
       context_limit |-> cs.limit, context_strategy |-> cs.strategy,
       summary_model |-> cs.summary_model,
       stream_output |-> so, skeptic_agent |-> sk, system_prompts |-> SystemPrompts] :
         m \in 1..MaxInstances, r \in 1..MaxRounds, cs \in ContextSettings,
         so \in BOOLEAN, sk \in BOOLEAN }

NoCall ==
    [kind |-> "none", rnd |-> 0, idx |-> 0, model |-> "", messages |-> <<>>,
     stream |-> FALSE, pos |-> 0, collected |-> <<>>]

NoTurn == [kind |-> "none", sp |-> "", language |-> ""]

NoResult == [returned |-> FALSE, value |-> ""]

\* The engine used without main_loop.
NoCli == [pc |-> "none", valid |-> TRUE, local |-> {}, steps |-> 0, save_logs |-> TRUE]

NoRuns ==
    [runs |-> 0, asked |-> "", composed_before |-> 0, last_query |-> "",
     last_transcript |-> <<>>]

(***************************************************************************)
(* debate_engine.py: DebateEngine                                          *)
(***************************************************************************)
\* DebateEntry.__init__
DebateEntry(model, round_num, content) ==
    [model |-> model, round_num |-> round_num, content |-> content]

as_dict(e) == [model |-> e.model, round |-> e.round_num, content |-> e.content]

AsDicts(tr) == [k \in 1..Len(tr) |-> as_dict(tr[k])]

PromptsGet(prompts, key, default) == IF key \in DOMAIN prompts THEN prompts[key] ELSE default

\* IsSkeptic without the test for more than one instance.
IsSkeptic_SingleInstance(c, i) == c.skeptic_agent /\ i = c.instances - 1

\* run() lines 80-81 and 110
IsSkeptic(c, i) == (c.skeptic_agent /\ c.instances > 1) /\ i = c.instances - 1

\* run() lines 112-119
DebatePrompt(c, r, i) ==
    LET prompts == c.system_prompts
        is_first == (r = 1)
    IN IF IsSkeptic(c, i) /\ is_first
       THEN PromptsGet(prompts, "skeptic_initial_round", PromptsGet(prompts, "skeptic_round", ""))
       ELSE IF IsSkeptic(c, i)
       THEN PromptsGet(prompts, "skeptic_round", PromptsGet(prompts, "debate_round", ""))
       ELSE IF is_first THEN PromptsGet(prompts, "initial_round", "")
       ELSE PromptsGet(prompts, "debate_round", "")

\* run() line 139
SynthesisPrompt(c) == PromptsGet(c.system_prompts, "final_synthesis", "")

\* _make_summary_func: the model of the summary callable, "" when it is None.
SummaryModel(c) ==
    IF c.summary_model # "" THEN c.summary_model
    ELSE IF c.models # <<>> THEN c.models[1] ELSE ""

CallRecord(call) ==
    [kind |-> call.kind, rnd |-> call.rnd, idx |-> call.idx, model |-> call.model,
     messages |-> call.messages, stream |-> call.stream]

NewCall(kind, r, i, model, messages, stream) ==
    [kind |-> kind, rnd |-> r, idx |-> i, model |-> model, messages |-> messages,
     stream |-> stream, pos |-> 0, collected |-> <<>>]

\* TurnModel with the synthesis given to the last configured model.
TurnModel_SynthesisByLast(c, kind, i) ==
    IF kind = "synthesis" THEN c.models[Len(c.models)] ELSE c.models[i + 1]

\* The model of a turn: models[idx], and models[0] for the synthesis.
TurnModel(c, kind, i) == IF kind = "synthesis" THEN c.models[1] ELSE c.models[i + 1]

\* _generate lines 198-201: the call the turn issues for the prepared messages.
GenerationCall(c, kind, r, i, messages) ==
    NewCall(kind, r, i, TurnModel(c, kind, i), messages, c.stream_output)

\* The prompt of a turn (lines 112-119 and 139), before the language note.
TurnPrompt(c, kind, r, i) ==
    IF kind = "synthesis" THEN SynthesisPrompt(c) ELSE DebatePrompt(c, r, i)

\* The first model call of a turn: prepare_messages either returns, and
\* _generate issues the turn's call with its messages, or reaches the
\* summarizer, whose chat_sync issues the summarization call.
FirstCall(c, kind, r, i, sp, q, entries) ==
    IF UsesSummarizer(sp, q, entries, c.context_limit, c.context_strategy, SummaryModel(c) # "")
    THEN NewCall("summary", r, i, SummaryModel(c), SummaryPrompt(entries), FALSE)
    ELSE GenerationCall(c, kind, r, i,
                        prepare_messages(sp, q, entries, c.context_limit, c.context_strategy,
                                         SummaryModel(c) # "", NoOutcome).messages)

\* BeginTurn composing from the transcript as it was before the entry of the
\* turn that just ended was appended.
BeginTurn_StaleTranscript(kind, r, i, tr, q, language) ==
    \E sp \in {TurnPrompt(cfg, kind, r, i) \o lang_note(language)} :
    \E entries \in {AsDicts(transcript)} :
    \E call \in {FirstCall(cfg, kind, r, i, sp, q, entries)} :
       /\ rnd' = r
       /\ idx' = i
       /\ turn' = [kind |-> kind, sp |-> sp, language |-> language]
       /\ composed' = Append(composed, [kind |-> kind, rnd |-> r, idx |-> i,
                                         system_prompt |-> sp, seen |-> transcript])
       /\ inflight' = call
       /\ calls' = Append(calls, CallRecord(call))
       /\ pc' = IF call.kind = "summary" THEN "Summarizing" ELSE "Generating"

\* One turn of run() from its prompt selection to its first model call:
\* prepare_messages either returns (and _generate issues the turn's call) or
\* reaches the summarizer (and chat_sync issues the summarization call).
BeginTurn(kind, r, i, tr, q, language) ==
    \E sp \in {TurnPrompt(cfg, kind, r, i) \o lang_note(language)} :
    \E entries \in {AsDicts(tr)} :
    \E call \in {FirstCall(cfg, kind, r, i, sp, q, entries)} :
       /\ rnd' = r
       /\ idx' = i
       /\ turn' = [kind |-> kind, sp |-> sp, language |-> language]
       /\ composed' = Append(composed, [kind |-> kind, rnd |-> r, idx |-> i,
                                         system_prompt |-> sp, seen |-> tr])
       /\ inflight' = call
       /\ calls' = Append(calls, CallRecord(call))
       /\ pc' = IF call.kind = "summary" THEN "Summarizing" ELSE "Generating"

\* NextTurn with the round loop running one round too many.
NextTurn_ExtraRound(c, r, i) ==
    IF i + 1 < c.instances THEN [kind |-> "debate", rnd |-> r, idx |-> i + 1]
    ELSE IF r <= c.rounds THEN [kind |-> "debate", rnd |-> r + 1, idx |-> 0]
    ELSE [kind |-> "synthesis", rnd |-> c.rounds + 1, idx |-> 0]

\* NextTurn with the agent loop of the rounds after the first starting at
\* index 1.
NextTurn_SkipsFirstAgent(c, r, i) ==
    IF i + 1 < c.instances THEN [kind |-> "debate", rnd |-> r, idx |-> i + 1]
    ELSE IF r < c.rounds
    THEN [kind |-> "debate", rnd |-> r + 1, idx |-> IF c.instances > 1 THEN 1 ELSE 0]
    ELSE [kind |-> "synthesis", rnd |-> c.rounds + 1, idx |-> 0]

\* The loops of lines 103 and 108 and the synthesis that follows them: the turn
\* after the debate turn (r, i), and the first turn of a run.
NextTurn(c, r, i) ==
    IF i + 1 < c.instances THEN [kind |-> "debate", rnd |-> r, idx |-> i + 1]
    ELSE IF r < c.rounds THEN [kind |-> "debate", rnd |-> r + 1, idx |-> 0]
    ELSE [kind |-> "synthesis", rnd |-> c.rounds + 1, idx |-> 0]

FirstTurn(c) ==
    IF c.rounds >= 1 /\ c.instances >= 1 THEN [kind |-> "debate", rnd |-> 1, idx |-> 0]
    ELSE [kind |-> "synthesis", rnd |-> c.rounds + 1, idx |-> 0]

NumFaults == Cardinality({k \in 1..Len(returns) : returns[k].failed})

\* run() without the reset of lines 70-71's transcript.clear(): the entries of
\* the run before stay in the transcript.
Run_KeepsTranscript(q) ==
    /\ user_query' = q
    /\ transcript' = transcript
    /\ result' = NoResult
    /\ runlog' = [runs |-> runlog.runs + 1, asked |-> q, composed_before |-> Len(composed),
                  last_query |-> user_query, last_transcript |-> transcript]
    /\ \E first \in {FirstTurn(cfg)} : \E language \in {detect_language(q)} :
          BeginTurn(first.kind, first.rnd, first.idx, transcript, q, language)
    /\ UNCHANGED <<cfg, returns, probe, cli>>

\* run(query) from its entry to the first model call: the reset of lines
\* 70-71, the reading of the configuration, the language detection (lines
\* 72-87) and the first turn.  runlog keeps what the session held before.
Run(q) ==
    /\ user_query' = q
    /\ transcript' = <<>>
    /\ result' = NoResult
    /\ runlog' = [runs |-> runlog.runs + 1, asked |-> q, composed_before |-> Len(composed),
                  last_query |-> user_query, last_transcript |-> transcript]
    /\ \E first \in {FirstTurn(cfg)} : \E language \in {detect_language(q)} :
          BeginTurn(first.kind, first.rnd, first.idx, <<>>, q, language)
    /\ UNCHANGED <<cfg, returns, probe, cli>>

\* run() called on a new engine.
StartRun ==
    /\ pc = "NotStarted"
    /\ \E q \in Queries : Run(q)

\* run() called again on the engine of a finished run.
RunAgain ==
    /\ pc = "Completed"
    /\ runlog.runs < MaxRuns
    /\ \E q \in Queries : Run(q)

\* SummaryReturn putting the summary in the place of the entries it condenses.
SummaryReturn_CondensesTranscript ==
    /\ pc = "Summarizing"
    /\ \E fails \in BOOLEAN :
         /\ fails => NumFaults < MaxFaults
         /\ \E text \in {chat_sync(inflight.model, "summary", fails)} :
            \E pm \in {prepare_messages(turn.sp, user_query, AsDicts(transcript),
                                        cfg.context_limit, cfg.context_strategy, TRUE,
                                        [raises |-> FALSE, text |-> text])} :
            \E call \in {GenerationCall(cfg, turn.kind, rnd, idx, pm.messages)} :
               /\ returns' = Append(returns, [failed |-> fails, text |-> text])
               /\ transcript' = <<DebateEntry(inflight.model, rnd, text)>>
               /\ inflight' = call
               /\ calls' = Append(calls, CallRecord(call))
               /\ pc' = "Generating"
    /\ UNCHANGED <<cfg, user_query, rnd, idx, turn, result, composed, runlog, probe, cli>>

\* The summarization call returns (chat_sync never raises): prepare_messages
\* finishes with the summary and _generate issues the turn's call.
SummaryReturn ==
    /\ pc = "Summarizing"
    /\ \E fails \in BOOLEAN :
         /\ fails => NumFaults < MaxFaults
         /\ \E text \in {chat_sync(inflight.model, "summary", fails)} :
            \E pm \in {prepare_messages(turn.sp, user_query, AsDicts(transcript),
                                        cfg.context_limit, cfg.context_strategy, TRUE,
                                        [raises |-> FALSE, text |-> text])} :
            \E call \in {GenerationCall(cfg, turn.kind, rnd, idx, pm.messages)} :
               /\ returns' = Append(returns, [failed |-> fails, text |-> text])
               /\ inflight' = call
               /\ calls' = Append(calls, CallRecord(call))
               /\ pc' = "Generating"
    /\ UNCHANGED <<cfg, user_query, transcript, rnd, idx, turn, result, composed, runlog, probe, cli>>

\* run() after the entry of a turn is appended: the next iteration of the
\* loops (lines 103-133), the synthesis turn (lines 136-152), or the return of
\* the synthesis content (line 159).
Continue(tr, text) ==
    IF turn.kind = "synthesis"
    THEN /\ pc' = "Completed"
         /\ result' = [returned |-> TRUE, value |-> text]
         /\ inflight' = NoCall
         /\ UNCHANGED <<rnd, idx, turn, composed, calls>>
    ELSE /\ result' = result
         /\ \E next \in {NextTurn(cfg, rnd, idx)} :
               BeginTurn(next.kind, next.rnd, next.idx, tr, user_query, turn.language)

\* Complete with a failed call raised out of run(): nothing is appended and
\* nothing is returned.
Complete_AbortOnFailure(content, failed) ==
    \E text \in {content} :
    \E tr \in {Append(transcript, DebateEntry(inflight.model, rnd, text))} :
       /\ returns' = Append(returns, [failed |-> failed, text |-> text])
       /\ IF failed
          THEN /\ pc' = "Raised"
               /\ inflight' = NoCall
               /\ UNCHANGED <<transcript, result, rnd, idx, turn, composed, calls>>
          ELSE /\ transcript' = tr
               /\ Continue(tr, text)
       /\ UNCHANGED <<cfg, user_query, runlog, probe, cli>>

\* Complete with a failed call issued again instead of being recorded.
Complete_RetryOnFailure(content, failed) ==
    \E text \in {content} :
    \E tr \in {Append(transcript, DebateEntry(inflight.model, rnd, text))} :
       /\ returns' = Append(returns, [failed |-> failed, text |-> text])
       /\ IF failed
          THEN /\ inflight' = [inflight EXCEPT !.pos = 0, !.collected = <<>>]
               /\ calls' = Append(calls, CallRecord(inflight))
               /\ UNCHANGED <<transcript, result, pc, rnd, idx, turn, composed>>
          ELSE /\ transcript' = tr
               /\ Continue(tr, text)
       /\ UNCHANGED <<cfg, user_query, runlog, probe, cli>>

\* _generate returns content (the reply, or the diagnostic of a failed call):
\* run() appends the entry (lines 134, 153) and goes on.
Complete(content, failed) ==
    \E text \in {content} :
    \E tr \in {Append(transcript, DebateEntry(inflight.model, rnd, text))} :
       /\ transcript' = tr
       /\ returns' = Append(returns, [failed |-> failed, text |-> text])
       /\ Continue(tr, text)
       /\ UNCHANGED <<cfg, user_query, runlog, probe, cli>>

\* _generate line 201: chat_sync returns the content or the diagnostic.
SyncReturn ==
    /\ pc = "Generating"
    /\ ~inflight.stream
    /\ \E fails \in BOOLEAN :
         /\ fails => NumFaults < MaxFaults
         /\ Complete(chat_sync(inflight.model, inflight.kind, fails), fails)

\* StreamChunk keeping the latest token in place of what was collected.
StreamChunk_KeepsLast ==
    /\ pc = "Generating"
    /\ inflight.stream
    /\ inflight.pos < Len(ProviderChunks(inflight.model, inflight.kind))
    /\ \E token \in {ProviderChunks(inflight.model, inflight.kind)[inflight.pos + 1]} :
          inflight' = [inflight EXCEPT !.pos = @ + 1,
                         !.collected = IF token # "" THEN <<token>> ELSE @]
    /\ UNCHANGED <<cfg, user_query, transcript, pc, rnd, idx, turn, result, composed,
                   calls, returns, runlog, probe, cli>>

\* chat_stream lines 67-70 and _stream_generate line 212: the next chunk of the
\* provider; its token is yielded and collected unless it is empty.
StreamChunk ==
    /\ pc = "Generating"
    /\ inflight.stream
    /\ inflight.pos < Len(ProviderChunks(inflight.model, inflight.kind))
    /\ \E token \in {ProviderChunks(inflight.model, inflight.kind)[inflight.pos + 1]} :
          inflight' = [inflight EXCEPT !.pos = @ + 1,
                         !.collected = IF token # "" THEN Append(@, token) ELSE @]
    /\ UNCHANGED <<cfg, user_query, transcript, pc, rnd, idx, turn, result, composed,
                   calls, returns, runlog, probe, cli>>

\* StreamFail yielding the diagnostic alone, without what was yielded before.
StreamFail_DropsPartial ==
    /\ pc = "Generating"
    /\ inflight.stream
    /\ NumFaults < MaxFaults
    /\ Complete(StreamDiagnostic(inflight.model, PROVIDER_ERROR), TRUE)

\* chat_stream line 72: the provider raises at the call or at any chunk; the
\* diagnostic is yielded as the last token and _stream_generate joins (line 216).
StreamFail ==
    /\ pc = "Generating"
    /\ inflight.stream
    /\ NumFaults < MaxFaults
    /\ Complete(Concat(Append(inflight.collected,
                              StreamDiagnostic(inflight.model, PROVIDER_ERROR))), TRUE)

\* StreamEnd without waiting for the stream to be exhausted: the turn ends
\* with what was collected so far.
StreamEnd_BeforeDrained ==
    /\ pc = "Generating"
    /\ inflight.stream
    /\ Complete(Concat(inflight.collected), FALSE)

\* The stream is exhausted: _stream_generate joins what it collected.
StreamEnd ==
    /\ pc = "Generating"
    /\ inflight.stream
    /\ inflight.pos = Len(ProviderChunks(inflight.model, inflight.kind))
    /\ Complete(Concat(inflight.collected), FALSE)

EngineInit ==
    /\ cfg \in {c \in Configs : c.instances * c.rounds <= MaxTurns}
    /\ user_query = ""
    /\ transcript = <<>>
    /\ pc = "NotStarted"
    /\ rnd = 0
    /\ idx = 0
    /\ turn = NoTurn
    /\ inflight = NoCall
    /\ result = NoResult
    /\ composed = <<>>
    /\ calls = <<>>
    /\ returns = <<>>
    /\ runlog = NoRuns
    /\ cli = NoCli

Init ==
    /\ EngineInit
    /\ probe = NoProbe

Next ==
    \/ StartRun
    \/ SummaryReturn
    \/ SyncReturn
    \/ StreamChunk
    \/ StreamFail
    \/ StreamEnd

Spec == Init /\ [][Next]_vars

\* run() waits for nothing but the provider, and a provider call ends (it
\* returns, is exhausted or raises).
FairSpec == Spec /\ WF_vars(Next)

(***************************************************************************)
(* Several run() calls on one engine (cli.py main_loop builds one engine   *)
(* and calls run() for every query), for configurations of at most         *)
(* MaxRerunTurns debate turns.                                             *)
(***************************************************************************)
RerunInit ==
    /\ Init
    /\ cfg.instances * cfg.rounds <= MaxRerunTurns
    /\ cfg.context_limit = SMALL_CONTEXT

RerunNext ==
    \/ Next
    \/ RunAgain

RerunSpec == RerunInit /\ [][RerunNext]_vars

(***************************************************************************)
(* cli.py main_loop, settings_menu and validate_and_fix_models over        *)
(* config_manager.py: the command loop that builds the engine and calls    *)
(* run().                                                                  *)
(***************************************************************************)
MaxCliSteps == 3
MaxCliInstances == 2
MaxCliRuns == 1
DEFAULT_FILLER == "llama3.2"
MIN_CONTEXT == 512

\* model.split(":")[0]
Base(name) ==
    LET cut[k \in 0..Len(name)] ==
            IF k = Len(name) THEN k
            ELSE IF CharAt(name, k + 1) = ":" THEN k ELSE cut[k + 1]
    IN SubSeq(name, 1, cut[0])

\* validate_models: model in local or base in local_base
IsAvailable(model, local) == model \in local \/ Base(model) \in { Base(l) : l \in local }

\* validate_models: the required models that are not available, in order.
MissingModels(required, local) == SelectSeq(required, LAMBDA m : ~IsAvailable(m, local))

\* The loops of set_model_at and ensure_models_match_instances that extend the
\* list to n entries with its last model, or the default when it is empty.
PadTo(models, n) ==
    [k \in 1..Max(n, Len(models)) |->
        IF k <= Len(models) THEN models[k]
        ELSE IF models # <<>> THEN models[Len(models)] ELSE DEFAULT_FILLER]

\* ConfigManager.set_model_at; index counts from 0.
set_model_at(models, index, model_name) ==
    [PadTo(models, index + 1) EXCEPT ![index + 1] = model_name]

\* ensure_models_match_instances keeping a list that is too long.
ensure_models_match_instances_NoTrim(c) ==
    [c EXCEPT !.models = IF Len(@) < c.instances THEN PadTo(@, c.instances) ELSE @]

\* ConfigManager.ensure_models_match_instances
ensure_models_match_instances(c) ==
    [c EXCEPT !.models = IF Len(@) < c.instances THEN PadTo(@, c.instances)
                         ELSE IF Len(@) > c.instances THEN SubSeq(@, 1, c.instances)
                         ELSE @]

\* list.index: the first position of model.
IndexOf(models, model) ==
    CHOOSE i \in 1..Len(models) :
        models[i] = model /\ \A j \in 1..(i - 1) : models[j] # model

\* What the user and Ollama can answer for one missing model: pull (which
\* succeeds or fails), replace by a local model, or skip.
Answers(local) ==
    { [choice |-> "p", pulled |-> TRUE, pick |-> ""],
      [choice |-> "p", pulled |-> FALSE, pick |-> ""],
      [choice |-> "s", pulled |-> FALSE, pick |-> ""] }
    \cup { [choice |-> "r", pulled |-> FALSE, pick |-> m] : m \in local }
    \cup (IF local = {} THEN {[choice |-> "r", pulled |-> FALSE, pick |-> ""]} ELSE {})

\* validate_and_fix_models with answers[k] given for the k-th missing model:
\* what it returns, the model list it leaves and Ollama's models afterwards.
validate_and_fix_models(c, local, answers) ==
    LET models_needed == SubSeq(c.models, 1, Min(c.instances, Len(c.models)))
        missing == MissingModels(models_needed, local)
        after[k \in 0..Len(missing)] ==
            IF k = 0 THEN [ok |-> TRUE, models |-> c.models, local |-> local]
            ELSE LET before == after[k - 1]
                     a == answers[k]
                 IN IF ~before.ok THEN before
                    ELSE IF a.choice = "p"
                    THEN IF a.pulled THEN [before EXCEPT !.local = @ \cup {missing[k]}]
                         ELSE [before EXCEPT !.ok = FALSE]
                    ELSE IF a.choice = "r" /\ local # {}
                    THEN [before EXCEPT !.models =
                             set_model_at(@, IndexOf(@, missing[k]) - 1, a.pick)]
                    ELSE [before EXCEPT !.ok = FALSE]
    IN after[Len(missing)]

\* The answer sequences validate_and_fix_models can be given for c.
AnswerSeqs(c, local) ==
    [1..Len(MissingModels(SubSeq(c.models, 1, Min(c.instances, Len(c.models))), local))
        -> Answers(local)]

\* Ollama's local models at startup: two models, one of them listed with its
\* tag; or none.
LocalSets == { {"llama3.2:latest", "mistral"}, {} }

\* The model lists of config.json at startup: none, one, and three of which
\* one is not local.
CliModelLists == { <<>>, <<"llama3.2">>, <<"llama3.2", "qwen2.5", "mistral">> }

\* The configurations main_loop can load, with instances >= 1.
CliConfigs ==
    { [instances |-> m, rounds |-> 1, models |-> ms,
       context_limit |-> SMALL_CONTEXT, context_strategy |-> "sliding_window",
       summary_model |-> "", stream_output |-> TRUE, skeptic_agent |-> TRUE,
       system_prompts |-> SystemPrompts] :
         m \in 1..MaxCliInstances, ms \in CliModelLists }

\* DebateEngine.__init__
NewEngine ==
    /\ transcript' = <<>>
    /\ user_query' = ""
    /\ pc' = "NotStarted"
    /\ result' = NoResult
    /\ inflight' = NoCall
    /\ turn' = NoTurn
    /\ rnd' = 0
    /\ idx' = 0

EngineIdle == pc \in {"NotStarted", "Completed"}

\* main_loop lines 197-211: load, validate, exit or reconcile and build the
\* engine.
Startup ==
    /\ cli.pc = "Startup"
    /\ \E answers \in AnswerSeqs(cfg, cli.local) :
       \E v \in {validate_and_fix_models(cfg, cli.local, answers)} :
          IF ~v.ok
          THEN /\ cfg' = [cfg EXCEPT !.models = v.models]
               /\ cli' = [cli EXCEPT !.pc = "Exited", !.valid = FALSE, !.local = v.local]
               /\ UNCHANGED <<transcript, user_query, pc, result, inflight, turn, rnd, idx>>
          ELSE /\ cfg' = ensure_models_match_instances([cfg EXCEPT !.models = v.models])
               /\ cli' = [cli EXCEPT !.pc = "Prompt", !.valid = TRUE, !.local = v.local]
               /\ NewEngine
    /\ UNCHANGED <<composed, calls, returns, runlog, probe>>

\* main_loop lines 222-223: /settings opens the menu.
OpenSettings ==
    /\ cli.pc = "Prompt"
    /\ EngineIdle
    /\ cli.steps < MaxCliSteps
    /\ cli' = [cli EXCEPT !.pc = "Settings", !.steps = @ + 1]
    /\ UNCHANGED <<engineVars, probe>>

\* The menu is open and takes a choice.
InMenu ==
    /\ cli.pc = "Settings"
    /\ cli.steps < MaxCliSteps

\* cfg.set and the return to the menu: the configuration becomes c.
Choose(c) ==
    /\ cfg' = c
    /\ cli' = [cli EXCEPT !.steps = @ + 1]
    /\ UNCHANGED <<user_query, transcript, pc, rnd, idx, turn, inflight, result,
                   composed, calls, returns, runlog, probe>>

\* settings_menu choice 1
SetInstances ==
    /\ InMenu
    /\ \E n \in 0..MaxCliInstances :
          Choose(ensure_models_match_instances([cfg EXCEPT !.instances = Max(1, n)]))

\* settings_menu choice 2
SetRounds ==
    /\ InMenu
    /\ \E r \in {0, MaxRounds} : Choose([cfg EXCEPT !.rounds = Max(1, r)])

\* settings_menu choice 3: a local model is picked for every agent.
AssignModels ==
    /\ InMenu
    /\ cli.local # {}
    /\ \E picks \in [1..cfg.instances -> cli.local] :
          LET assigned[i \in 0..cfg.instances] ==
                  IF i = 0 THEN cfg.models ELSE set_model_at(assigned[i - 1], i - 1, picks[i])
          IN Choose([cfg EXCEPT !.models = assigned[cfg.instances]])

\* settings_menu choice 4
SetContextLimit ==
    /\ InMenu
    /\ \E lim \in {0, DEFAULT_CONTEXT} :
          Choose([cfg EXCEPT !.context_limit = Max(MIN_CONTEXT, lim)])

\* settings_menu choice 5
ToggleStrategy ==
    /\ InMenu
    /\ Choose([cfg EXCEPT !.context_strategy =
                  IF @ = "sliding_window" THEN "summary" ELSE "sliding_window"])

\* settings_menu choice 6
ToggleStream ==
    /\ InMenu
    /\ Choose([cfg EXCEPT !.stream_output = ~@])

\* settings_menu choice 7
ToggleSaveLogs ==
    /\ InMenu
    /\ cli' = [cli EXCEPT !.steps = @ + 1, !.save_logs = ~@]
    /\ UNCHANGED <<engineVars, probe>>

\* settings_menu choice 8
ToggleSkeptic ==
    /\ InMenu
    /\ Choose([cfg EXCEPT !.skeptic_agent = ~@])

\* settings_menu choice 0 and main_loop lines 224-229: the menu is left, the
\* models are validated again (the result is not used), the list is
\* reconciled and a new engine is built.
CloseSettings ==
    /\ cli.pc = "Settings"
    /\ \E answers \in AnswerSeqs(cfg, cli.local) :
       \E v \in {validate_and_fix_models(cfg, cli.local, answers)} :
          /\ cfg' = ensure_models_match_instances([cfg EXCEPT !.models = v.models])
          /\ cli' = [cli EXCEPT !.pc = "Prompt", !.valid = v.ok, !.local = v.local]
    /\ NewEngine
    /\ UNCHANGED <<composed, calls, returns, runlog, probe>>

\* main_loop line 231: engine.run(user_input)
RunQuery ==
    /\ cli.pc = "Prompt"
    /\ EngineIdle
    /\ runlog.runs < MaxCliRuns
    /\ \E q \in Queries : Run(q)

\* main_loop lines 219-221: /quit
Quit ==
    /\ cli.pc = "Prompt"
    /\ EngineIdle
    /\ cli' = [cli EXCEPT !.pc = "Exited"]
    /\ UNCHANGED <<engineVars, probe>>

CliInit ==
    /\ cfg \in CliConfigs
    /\ user_query = ""
    /\ transcript = <<>>
    /\ pc = "NotStarted"
    /\ rnd = 0
    /\ idx = 0
    /\ turn = NoTurn
    /\ inflight = NoCall
    /\ result = NoResult
    /\ composed = <<>>
    /\ calls = <<>>
    /\ returns = <<>>
    /\ runlog = NoRuns
    /\ probe = NoProbe
    /\ \E local \in LocalSets :
          cli = [pc |-> "Startup", valid |-> FALSE, local |-> local, steps |-> 0,
                 save_logs |-> TRUE]

CliNext ==
    \/ Startup
    \/ OpenSettings
    \/ SetInstances
    \/ SetRounds
    \/ AssignModels
    \/ SetContextLimit
    \/ ToggleStrategy
    \/ ToggleStream
    \/ ToggleSaveLogs
    \/ ToggleSkeptic
    \/ CloseSettings
    \/ RunQuery
    \/ Quit
    \/ SummaryReturn
    \/ SyncReturn
    \/ StreamChunk
    \/ StreamFail
    \/ StreamEnd

CliSpec == CliInit /\ [][CliNext]_vars

(***************************************************************************)
(* The harness specification of the pure functions.                        *)
(***************************************************************************)
BudgetInit ==
    /\ cfg = CHOOSE c \in Configs : TRUE
    /\ user_query = ""
    /\ transcript = <<>>
    /\ pc = "NotStarted"
    /\ rnd = 0
    /\ idx = 0
    /\ turn = NoTurn
    /\ inflight = NoCall
    /\ result = NoResult
    /\ composed = <<>>
    /\ calls = <<>>
    /\ returns = <<>>
    /\ runlog = NoRuns
    /\ cli = NoCli
    /\ probe \in { [applied |-> FALSE, out |-> NoOutput, in |-> i] :
                     i \in WindowInputs \cup PrepareInputs \cup SummarizeInputs \cup EstimateInputs }

BudgetNext ==
    \/ ApplySlidingWindow
    \/ ApplyPrepareMessages
    \/ ApplySummarizeTranscript
    \/ ApplyEstimate

BudgetSpec == BudgetInit /\ [][BudgetNext]_vars

(***************************************************************************)
(* Properties.                                                             *)
(***************************************************************************)
Rounds == cfg.rounds
Instances == cfg.instances
DebateTurns == Rounds * Instances

RoundNumbers(tr) == [k \in 1..Len(tr) |-> tr[k].round_num]

\* C1: when run() returns, the transcript holds exactly R*M + 1 entries; entry
\* k (0-based, k < R*M) has round floor(k/M) + 1 and model models[k mod M]; the
\* last entry has round R + 1; 2 agents, 1 round, skeptic off gives the round
\* numbers 1, 1, 2.
C1_TranscriptShape ==
    pc = "Completed" =>
        /\ Len(transcript) = DebateTurns + 1
        /\ \A k \in 0..(DebateTurns - 1) :
              /\ transcript[k + 1].round_num = (k \div Instances) + 1
              /\ transcript[k + 1].model = cfg.models[(k % Instances) + 1]
        /\ transcript[DebateTurns + 1].round_num = Rounds + 1
        /\ (Instances = 2 /\ Rounds = 1 /\ ~cfg.skeptic_agent
              => RoundNumbers(transcript) = <<1, 1, 2>>)

C1_Witness ==
    /\ pc = "Completed"
    /\ Instances = 2 /\ Rounds = 1 /\ ~cfg.skeptic_agent
    /\ RoundNumbers(transcript) = <<1, 1, 2>>

\* The place of the debate turn (r, i) in call order, counted from 0.
TurnIndex(r, i) == (r - 1) * Instances + i

\* C2: the transcript handed to prepare_messages for agent i in round r is the
\* sequence of the entries of all earlier turns in call order, (r-1)*M + i
\* entries: all agents of rounds 1..r-1 and agents 0..i-1 of round r, never the
\* output of agent i or of a later agent of round r.
C2_SeesEarlierTurnsOnly ==
    \A n \in 1..Len(composed) :
        composed[n].kind = "debate" =>
            LET r == composed[n].rnd
                i == composed[n].idx
                seen == composed[n].seen
            IN /\ Len(seen) = TurnIndex(r, i)
               /\ seen = SubSeq(transcript, 1, TurnIndex(r, i))
               /\ \A k \in 1..Len(seen) :
                     /\ seen[k].round_num = ((k - 1) \div Instances) + 1
                     /\ seen[k].model = cfg.models[((k - 1) % Instances) + 1]
                     /\ \/ seen[k].round_num < r
                        \/ seen[k].round_num = r /\ (k - 1) % Instances < i

\* A second-round agent that is not the first of its round has been handed the
\* whole first round and its earlier peers of the second round.
C2_Witness ==
    \E n \in 1..Len(composed) :
        /\ composed[n].kind = "debate"
        /\ composed[n].rnd = 2
        /\ composed[n].idx = 1
        /\ Len(composed[n].seen) = Instances + 1
        /\ composed[n].seen[Instances + 1].round_num = 2

\* C3: once run() has started it always terminates and returns a synthesis,
\* whichever of its debate, synthesis and summarization calls fail, in sync or
\* streaming mode, at the call or mid-stream: the run reaches Completed with
\* all R*M + 1 entries and returns the content of the last one.
C3_RunAlwaysCompletes ==
    (pc # "NotStarted") ~>
        (/\ pc = "Completed"
         /\ result.returned
         /\ Len(transcript) = DebateTurns + 1
         /\ result.value = transcript[DebateTurns + 1].content)

\* A completed streaming run in which every model call failed, one of them
\* after the provider had delivered text.
C3_Witness ==
    /\ pc = "Completed"
    /\ result.returned
    /\ cfg.stream_output
    /\ Len(returns) >= 2
    /\ \A n \in 1..Len(returns) : returns[n].failed
    /\ \E n \in 1..Len(returns) :
          returns[n].text # StreamDiagnostic(calls[n].model, PROVIDER_ERROR)

\* The number of generation calls (the call of a debate or synthesis turn, as
\* opposed to a summarization call) among the first n calls.
GenCount(n) == Cardinality({k \in 1..n : calls[k].kind # "summary"})

\* What a streaming call can have delivered before it fails.
Partials(model, kind) ==
    { Concat(SubSeq(ProviderChunks(model, kind), 1, j)) :
        j \in 0..Len(ProviderChunks(model, kind)) }

\* The part of claim C4 that does not depend on what the content of a failed
\* turn is: the run is never aborted, a returned generation call leaves one
\* ordinary entry whose content is what the call returned, and every later
\* turn is composed from a transcript that holds this entry at its place.
FailedTurnKept ==
    /\ pc \in {"NotStarted", "Summarizing", "Generating", "Completed"}
    /\ GenCount(Len(returns)) = Len(transcript)
    /\ Len(calls) - Len(returns) \in {0, 1}
    /\ \A n \in 1..Len(returns) :
          calls[n].kind # "summary" =>
             LET t == GenCount(n)
             IN /\ transcript[t] = DebateEntry(calls[n].model, calls[n].rnd, returns[n].text)
                /\ \A m \in (t + 1)..Len(composed) : composed[m].seen[t] = transcript[t]

\* C4 (as stated): a failed call of a turn is never retried and never aborts
\* the run: a turn issues exactly one model call, and when it fails the error
\* text is the content of the turn's entry, which is appended as an ordinary
\* entry and is in the transcript given to every later turn.
C4_ErrorTextIsTheContent ==
    /\ FailedTurnKept
    /\ \A a, b \in 1..Len(calls) :
          (calls[a].rnd = calls[b].rnd /\ calls[a].idx = calls[b].idx) => a = b
    /\ \A n \in 1..Len(returns) :
          (calls[n].kind # "summary" /\ returns[n].failed) =>
             returns[n].text = IF calls[n].stream
                               THEN StreamDiagnostic(calls[n].model, PROVIDER_ERROR)
                               ELSE SyncDiagnostic(calls[n].model, PROVIDER_ERROR)

\* C4 (amended): a failed call of a turn is never retried and never aborts the
\* run: a turn issues exactly one generation call, preceded by at most one
\* summarization call; when the generation call fails, the content of the
\* turn's entry is the text received before the failure followed by the error
\* text (the error text alone in sync mode or when nothing was received); the
\* entry is appended as an ordinary entry and is in the transcript given to
\* every later turn.
C4_FailedTurnRecorded ==
    /\ FailedTurnKept
    /\ \A a, b \in 1..Len(calls) :
          (/\ calls[a].rnd = calls[b].rnd /\ calls[a].idx = calls[b].idx
           /\ (calls[a].kind = "summary") = (calls[b].kind = "summary")) => a = b
    /\ \A n \in 1..Len(calls) :
          calls[n].kind = "summary" =>
             /\ n < Len(calls) => calls[n + 1].kind # "summary"
             /\ n < Len(calls) => (calls[n + 1].rnd = calls[n].rnd /\ calls[n + 1].idx = calls[n].idx)
    /\ \A n \in 1..Len(returns) :
          (calls[n].kind # "summary" /\ returns[n].failed) =>
             IF calls[n].stream
             THEN \E p \in Partials(calls[n].model, calls[n].kind) :
                     returns[n].text = p \o StreamDiagnostic(calls[n].model, PROVIDER_ERROR)
             ELSE returns[n].text = SyncDiagnostic(calls[n].model, PROVIDER_ERROR)

\* A debate call failed mid-stream after text was received, and a later turn
\* has been composed from the transcript that holds its entry.
C4_Witness ==
    \E n \in 1..Len(returns) :
        /\ calls[n].kind = "debate"
        /\ calls[n].stream
        /\ returns[n].failed
        /\ returns[n].text # StreamDiagnostic(calls[n].model, PROVIDER_ERROR)
        /\ Len(composed) > GenCount(n)
        /\ composed[GenCount(n) + 1].seen[GenCount(n)].content = returns[n].text

\* The prompt variant the role rule prescribes for agent i in round r: the
\* agent is the skeptic iff the skeptic is enabled, M > 1 and i = M - 1.
RoleOf(i) == IF cfg.skeptic_agent /\ Instances > 1 /\ i = Instances - 1 THEN "skeptic" ELSE "debater"

VariantOf(r, i) ==
    IF RoleOf(i) = "skeptic"
    THEN (IF r = 1 THEN "skeptic_initial_round" ELSE "skeptic_round")
    ELSE (IF r = 1 THEN "initial_round" ELSE "debate_round")

DebateCalls == {n \in 1..Len(calls) : calls[n].kind = "debate"}

\* C5: the system prompt of the call of agent i in round r is the variant of
\* its role and round: skeptic_initial / skeptic_followup for the skeptic
\* (skeptic enabled, M > 1, i = M - 1) in round 1 / a later round,
\* debater_initial / debater_followup for every other agent; with M = 4 and
\* the skeptic enabled index 3 is the skeptic and 0-2 debaters, and with the
\* skeptic disabled or M = 1 no agent is the skeptic.
C5_RoleAndPromptVariant ==
    \A n \in DebateCalls :
        LET r == calls[n].rnd
            i == calls[n].idx
            system == calls[n].messages[1]
        IN /\ system.role = "system"
           /\ system.content = SystemPrompts[VariantOf(r, i)] \o lang_note(turn.language)
           /\ (Instances = 4 /\ cfg.skeptic_agent) =>
                 (system.content = SystemPrompts[IF r = 1 THEN "skeptic_initial_round"
                                                 ELSE "skeptic_round"]
                                   \o lang_note(turn.language)) = (i = 3)
           /\ (~cfg.skeptic_agent \/ Instances = 1) =>
                 system.content = SystemPrompts[IF r = 1 THEN "initial_round" ELSE "debate_round"]
                                  \o lang_note(turn.language)

\* A completed run of 4 instances with the skeptic enabled: agents 0-2 were
\* called with the debater prompt and agent 3 with the skeptic prompt.
C5_Witness ==
    /\ pc = "Completed"
    /\ Instances = 4
    /\ cfg.skeptic_agent
    /\ \E n \in DebateCalls :
          /\ calls[n].idx = 3
          /\ calls[n].messages[1].content
                = SystemPrompts["skeptic_initial_round"] \o lang_note(turn.language)
    /\ \A j \in 0..2 : \E n \in DebateCalls :
          /\ calls[n].idx = j
          /\ calls[n].messages[1].content
                = SystemPrompts["initial_round"] \o lang_note(turn.language)

SynthesisCalls == {n \in 1..Len(calls) : calls[n].kind = "synthesis"}

\* C6: exactly one synthesis turn is performed, after all R*M debate entries
\* are appended; it uses the synthesis prompt, models[0] and the whole
\* transcript of R*M entries; its result is the last entry, with round R + 1,
\* and run() returns the content of that entry.
C6_SingleSynthesis ==
    /\ Cardinality(SynthesisCalls) <= 1
    /\ \A n \in 1..Len(composed) :
          composed[n].kind = "synthesis" =>
             /\ n = DebateTurns + 1
             /\ Len(composed[n].seen) = DebateTurns
             /\ composed[n].seen = SubSeq(transcript, 1, DebateTurns)
             /\ composed[n].system_prompt
                   = SystemPrompts["final_synthesis"] \o lang_note(turn.language)
    /\ \A n \in SynthesisCalls :
          /\ calls[n].model = cfg.models[1]
          /\ calls[n].messages[1].content
                = SystemPrompts["final_synthesis"] \o lang_note(turn.language)
          /\ GenCount(n) = DebateTurns + 1
    /\ pc = "Completed" =>
          /\ Cardinality(SynthesisCalls) = 1
          /\ Len(transcript) = DebateTurns + 1
          /\ transcript[DebateTurns + 1].model = cfg.models[1]
          /\ transcript[DebateTurns + 1].round_num = Rounds + 1
          /\ result.returned
          /\ result.value = transcript[DebateTurns + 1].content
    /\ result.returned => pc = "Completed"

\* A completed run of several agents whose synthesis was written by models[0]
\* and returned.
C6_Witness ==
    /\ pc = "Completed"
    /\ Instances >= 2
    /\ Rounds = 2
    /\ transcript[DebateTurns + 1].model = cfg.models[1]
    /\ transcript[DebateTurns].model # cfg.models[1]
    /\ result.value = Concat(ProviderChunks(cfg.models[1], "synthesis"))

\* The phase of the run: 0 NotStarted, r RoundInProgress(r), R + 1
\* Synthesizing, R + 2 Completed.
Phase ==
    IF pc = "NotStarted" THEN 0
    ELSE IF pc = "Completed" THEN Rounds + 2
    ELSE rnd

\* (r1, i1) before (r2, i2) in lexicographic order.
LexLess(r1, i1, r2, i2) == r1 < r2 \/ (r1 = r2 /\ i1 < i2)

\* The generation calls issued so far, in call order.
GenCalls == SelectSeq(calls, LAMBDA c : c.kind # "summary")

CallsInOrder ==
    /\ \A a, b \in 1..Len(GenCalls) :
          a < b => /\ GenCalls[a].kind = "debate"
                   /\ LexLess(GenCalls[a].rnd, GenCalls[a].idx, GenCalls[b].rnd, GenCalls[b].idx)
    /\ \A a \in 1..Len(GenCalls) :
          GenCalls[a].kind = "debate" =>
             /\ GenCalls[a].rnd \in 1..Rounds
             /\ GenCalls[a].idx \in 0..(Instances - 1)
             /\ a = TurnIndex(GenCalls[a].rnd, GenCalls[a].idx) + 1
    /\ pc = "Completed" =>
          \A r \in 1..Rounds : \A i \in 0..(Instances - 1) :
             Cardinality({a \in 1..Len(GenCalls) :
                            /\ GenCalls[a].kind = "debate"
                            /\ GenCalls[a].rnd = r
                            /\ GenCalls[a].idx = i}) = 1
    /\ Len(calls) - Len(returns) = (IF pc \in {"Summarizing", "Generating"} THEN 1 ELSE 0)
    /\ Phase \in 0..(Rounds + 2)

\* C7: the phases follow NotStarted, RoundInProgress(1..R), Synthesizing,
\* Completed, none revisited; the (round, index) pairs of the model calls are
\* strictly increasing in lexicographic order, every pair of 1..R x 0..M-1
\* occurs exactly once, no debate turn follows the synthesis turn, and no call
\* is issued while another is in progress.
C7_PhaseOrder ==
    /\ []CallsInOrder
    /\ [][/\ Phase' \in {Phase, Phase + 1}
          /\ Len(calls') > Len(calls) =>
                (Len(calls') = Len(calls) + 1 /\ Len(returns') = Len(calls))]_vars

\* A completed run of 2 rounds of 2 agents: the calls were (1,0), (1,1),
\* (2,0), (2,1) and the synthesis.
C7_Witness ==
    /\ pc = "Completed"
    /\ Rounds = 2
    /\ Instances = 2
    /\ [a \in 1..Len(GenCalls) |-> <<GenCalls[a].kind, GenCalls[a].rnd, GenCalls[a].idx>>]
          = << <<"debate", 1, 0>>, <<"debate", 1, 1>>, <<"debate", 2, 0>>,
               <<"debate", 2, 1>>, <<"synthesis", 3, 0>> >>

\* The fragments the budgeter was applied to: the input of sliding_window, or
\* the naive composition of prepare_messages.
ProbeFragments ==
    IF probe.in.op = "sliding_window" THEN probe.in.msgs
    ELSE NaiveMessages(probe.in.system_prompt, probe.in.query, probe.in.entries)

ProbeReserved == SubSeq(ProbeFragments, 1, Min(RESERVED_COUNT, Len(ProbeFragments)))

\* The budgeter has run: sliding_window was applied, or prepare_messages took
\* an overflow path.
BudgeterRan ==
    /\ probe.applied
    /\ probe.in.op \in {"sliding_window", "prepare_messages"}
    /\ probe.out.path # "happy"

C9_HappyPathUntouched ==
    (/\ probe.applied
     /\ probe.in.op = "prepare_messages"
     /\ estimate_messages_tokens(ProbeFragments) <= probe.in.limit)
    => /\ probe.out.messages = ProbeFragments
       /\ probe.out.summarizer_calls = 0
       /\ probe.out.window_calls = 0

\* prepare_messages returned the naive composition of a non-empty transcript
\* under the summary strategy with a summarizer at hand.
C9_Witness ==
    /\ probe.applied
    /\ probe.in.op = "prepare_messages"
    /\ probe.in.strategy = "summary"
    /\ probe.in.has_func
    /\ probe.in.entries # <<>>
    /\ estimate_messages_tokens(ProbeFragments) <= probe.in.limit
    /\ Len(probe.out.messages) = 3
    /\ probe.out.summarizer_calls = 0

\* C10: for every input list and every limit, zero and negative ones
\* included, the first two fragments of the input of sliding_window are the
\* first two fragments of its output, unmodified and in the same order.
C10_ReservedPreserved ==
    (probe.applied /\ probe.in.op = "sliding_window") =>
        /\ Len(probe.out.messages) >= Min(RESERVED_COUNT, Len(probe.in.msgs))
        /\ SubSeq(probe.out.messages, 1, Min(RESERVED_COUNT, Len(probe.in.msgs)))
              = SubSeq(probe.in.msgs, 1, Min(RESERVED_COUNT, Len(probe.in.msgs)))

\* sliding_window applied with a negative limit to a list of more than two
\* fragments returned its first two fragments.
C10_Witness ==
    /\ probe.applied
    /\ probe.in.op = "sliding_window"
    /\ probe.in.limit < 0
    /\ Len(probe.in.msgs) > RESERVED_COUNT
    /\ probe.out.messages = SubSeq(probe.in.msgs, 1, RESERVED_COUNT)
    /\ probe.out.messages[1] # probe.out.messages[2]

\* The last k elements of seq.
Suffix(seq, k) == SubSeq(seq, Len(seq) - k + 1, Len(seq))

\* The input of sliding_window after its first two fragments, the same part of
\* its output, and the budget left for it.
ProbeRest == SubSeq(probe.in.msgs, RESERVED_COUNT + 1, Len(probe.in.msgs))

ProbeOutRest == SubSeq(probe.out.messages, RESERVED_COUNT + 1, Len(probe.out.messages))

ProbeBudget == probe.in.limit - estimate_messages_tokens(ProbeReserved) - SAFETY_MARGIN

\* C11: the non-reserved part of the output of sliding_window is a contiguous
\* suffix of the non-reserved part of its input, in the original order, and it
\* is the longest suffix whose cost is at most limit - cost(first two) - 64:
\* a fragment that does not fit excludes every older fragment, even one that
\* would fit.  (With a negative budget no suffix qualifies and the part is
\* empty.)
C11_LongestFittingSuffix ==
    (probe.applied /\ probe.in.op = "sliding_window") =>
        LET n == Len(ProbeOutRest)
        IN /\ n <= Len(ProbeRest)
           /\ ProbeOutRest = Suffix(ProbeRest, n)
           /\ probe.out.messages = ProbeReserved \o Suffix(ProbeRest, n)
           /\ n > 0 => estimate_messages_tokens(ProbeOutRest) <= ProbeBudget
           /\ \A k \in 0..Len(ProbeRest) :
                 estimate_messages_tokens(Suffix(ProbeRest, k)) <= ProbeBudget => k <= n
           /\ n < Len(ProbeRest) =>
                 estimate_messages_tokens(Suffix(ProbeRest, n + 1)) > ProbeBudget

\* sliding_window kept the most recent fragment, met a fragment that does not
\* fit, and left out an older fragment that the remaining budget would hold.
C11_Witness ==
    /\ probe.applied
    /\ probe.in.op = "sliding_window"
    /\ Len(ProbeRest) = 3
    /\ Len(ProbeOutRest) = 1
    /\ ProbeOutRest[1] = ProbeRest[3]
    /\ estimate_messages_tokens(<<ProbeRest[1], ProbeRest[3]>>) <= ProbeBudget
    /\ estimate_messages_tokens(<<ProbeRest[2], ProbeRest[3]>>) > ProbeBudget

\* C12: on every path of prepare_messages the output begins with one
\* system-role fragment carrying the given system prompt, followed by one
\* user-role fragment framing the query, and holds no other system-role
\* fragment.
C12_SystemThenQuery ==
    (probe.applied /\ probe.in.op = "prepare_messages") =>
        LET out == probe.out.messages
        IN /\ Len(out) >= 2
           /\ out[1] = [role |-> "system", content |-> probe.in.system_prompt]
           /\ out[2] = [role |-> "user", content |-> "User Query: " \o probe.in.query]
           /\ \A k \in 2..Len(out) : out[k].role # "system"

\* prepare_messages returned the summary composition: system prompt, query
\* and the summary as a third user-role fragment.
C12_Witness ==
    /\ probe.applied
    /\ probe.in.op = "prepare_messages"
    /\ probe.in.system_prompt # ""
    /\ probe.out.path = "summary"
    /\ Len(probe.out.messages) = 3
    /\ probe.out.messages[1].role = "system"
    /\ probe.out.messages[3].role = "user"

\* The raw transcript text of the input of summarize_transcript.
ProbeFull == build_transcript(probe.in.entries)

\* summarize_transcript was applied with a summarizer that raises.
SummarizerRaised ==
    /\ probe.applied
    /\ probe.in.op = "summarize_transcript"
    /\ probe.in.outcome.raises

\* C13: when the summarizer raises, summarize_transcript does not raise and
\* falls back to truncation: for every transcript and limit the returned text
\* is at most limit * 4 characters plus the length of the truncation marker
\* long, and it ends with the last characters of the raw transcript.
C13_FallbackWithinLength ==
    SummarizerRaised =>
        /\ ~probe.out.raised
        /\ Len(probe.out.text) <= probe.in.limit * CHARS_PER_TOKEN + Len(TRUNCATION_MARKER)
        /\ \E k \in 0..Len(ProbeFull) :
              probe.out.text \in {Suffix(ProbeFull, k), TRUNCATION_MARKER \o Suffix(ProbeFull, k)}

\* The same for the limits of at least 1: the result is the raw transcript when
\* it has at most limit * 4 characters, and else the marker followed by its
\* last limit * 4 characters.
C13_FallbackForPositiveLimit ==
    (SummarizerRaised /\ probe.in.limit >= 1) =>
        /\ ~probe.out.raised
        /\ Len(probe.out.text) <= probe.in.limit * CHARS_PER_TOKEN + Len(TRUNCATION_MARKER)
        /\ probe.out.text =
              IF Len(ProbeFull) > probe.in.limit * CHARS_PER_TOKEN
              THEN TRUNCATION_MARKER \o Suffix(ProbeFull, probe.in.limit * CHARS_PER_TOKEN)
              ELSE ProbeFull

\* The summarizer raised with limit 0 and the marker was returned in front of
\* the whole transcript.
C13_ZeroLimitKeepsAll ==
    /\ SummarizerRaised
    /\ probe.in.limit = 0
    /\ ProbeFull # ""
    /\ probe.out.text = TRUNCATION_MARKER \o ProbeFull

\* The summarization calls of the run that failed and whose turn has issued
\* its generation call.
FailedSummaryCalls ==
    {n \in 1..Len(returns) : calls[n].kind = "summary" /\ returns[n].failed /\ n < Len(calls)}

\* The entries the turn of call n was composed from.
SeenBy(n) == AsDicts(composed[GenCount(n) + 1].seen)

\* C14: a failure of the provider during a summarization call is recovered by
\* fallback truncation and never surfaced: the third fragment of the messages
\* of the turn's generation call holds the (truncated) raw transcript text the
\* fallback produces, and never the provider's diagnostic.
C14_SummaryFailureFallsBack ==
    \A n \in FailedSummaryCalls :
        LET msgs == calls[n + 1].messages
        IN Len(msgs) >= 3 =>
              /\ msgs[3].content # "Condensed debate summary:\n\n"
                                    \o SyncDiagnostic(calls[n].model, PROVIDER_ERROR)
              /\ msgs[3].content = "Condensed debate summary:\n\n"
                                    \o summarize_transcript(SeenBy(n), [raises |-> TRUE, text |-> ""],
                                                            cfg.context_limit \div 2)

\* A summarization call failed and the diagnostic chat_sync returned for it is
\* the summary in the third fragment of the turn's generation call.
C14_DiagnosticAsSummary ==
    \E n \in FailedSummaryCalls :
        /\ Len(calls[n + 1].messages) = 3
        /\ calls[n + 1].messages[3].content
              = "Condensed debate summary:\n\n" \o SyncDiagnostic(calls[n].model, PROVIDER_ERROR)

\* prepare_messages was applied to an input whose naive composition exceeds
\* the limit.
ProbeOverflows ==
    /\ probe.applied
    /\ probe.in.op = "prepare_messages"
    /\ estimate_messages_tokens(ProbeFragments) > probe.in.limit

\* The composition of system prompt, query and what the summarizer gave.
ProbeCondensed ==
    SummaryMessages(probe.in.system_prompt, probe.in.query,
                    summarize_transcript(probe.in.entries, probe.in.outcome,
                                         probe.in.limit \div 2))

\* C15: prepare_messages calls the summarizer iff the naive composition
\* exceeds context_limit, the strategy is 'summary' and a summarizer is
\* available, and then once; the composition (system, query, summary) is
\* returned if it costs at most context_limit, else sliding_window is applied
\* to it; with another strategy or no summarizer an overflow goes to
\* sliding_window directly.
C15_SummaryThenWindow ==
    (probe.applied /\ probe.in.op = "prepare_messages") =>
        LET summarizes == /\ estimate_messages_tokens(ProbeFragments) > probe.in.limit
                          /\ probe.in.strategy = "summary"
                          /\ probe.in.has_func
        IN /\ probe.out.summarizer_calls = (IF summarizes THEN 1 ELSE 0)
           /\ summarizes =>
                 IF estimate_messages_tokens(ProbeCondensed) <= probe.in.limit
                 THEN probe.out.messages = ProbeCondensed /\ probe.out.window_calls = 0
                 ELSE /\ probe.out.messages = sliding_window(ProbeCondensed, probe.in.limit)
                      /\ probe.out.window_calls = 1
           /\ (ProbeOverflows /\ ~summarizes) =>
                 /\ probe.out.messages = sliding_window(ProbeFragments, probe.in.limit)
                 /\ probe.out.window_calls = 1

\* The summary composition still exceeded the limit and sliding_window was
\* applied to it, after one call of the summarizer.
C15_Witness ==
    /\ ProbeOverflows
    /\ probe.in.strategy = "summary"
    /\ probe.in.has_func
    /\ estimate_messages_tokens(ProbeCondensed) > probe.in.limit
    /\ probe.out.summarizer_calls = 1
    /\ probe.out.window_calls = 1
    /\ probe.out.messages = sliding_window(ProbeCondensed, probe.in.limit)

\* The non-empty tokens among the first n chunks of the provider: what
\* chat_stream has yielded when the provider has produced n chunks.
YieldedOf(model, kind, n) ==
    SelectSeq(SubSeq(ProviderChunks(model, kind), 1, n), LAMBDA t : t # "")

\* Every failed call ended as a returned text, and the text of a failed
\* chat_sync call is its diagnostic.
FailuresReturnText ==
    /\ pc \in {"NotStarted", "Summarizing", "Generating", "Completed"}
    /\ \A n \in 1..Len(returns) :
          (returns[n].failed /\ ~calls[n].stream) =>
             returns[n].text = "[ERROR] Model " \o calls[n].model \o " failed: " \o PROVIDER_ERROR

\* The step in which a streaming call fails: what was yielded before are the
\* fragments the provider had produced, the diagnostic is yielded after them
\* as the last fragment, and the call is over.
StreamFailureStep ==
    (/\ Len(returns') = Len(returns) + 1
     /\ returns'[Len(returns')].failed
     /\ inflight.stream)
    => /\ inflight.pos \in 0..Len(ProviderChunks(inflight.model, inflight.kind))
       /\ inflight.collected = YieldedOf(inflight.model, inflight.kind, inflight.pos)
       /\ returns'[Len(returns')].text
             = Concat(inflight.collected
                      \o << "\n[ERROR] Model " \o inflight.model \o " failed: "
                            \o PROVIDER_ERROR \o "\n" >>)
       /\ inflight' # inflight
       /\ pc' \in {"Summarizing", "Generating", "Completed"}

\* C16: chat_sync and chat_stream surface every provider failure as a
\* diagnostic string and never propagate an exception: chat_sync returns the
\* diagnostic; chat_stream, failing at the call or after any number of
\* fragments, yields the fragments produced before the failure, then the
\* diagnostic as its last fragment, and ends.
C16_FailuresBecomeText == []FailuresReturnText /\ [][StreamFailureStep]_vars

\* A run in which a chat_sync call failed and a chat_stream call failed after
\* it had yielded a fragment.
C16_Witness ==
    /\ \E n \in 1..Len(returns) :
          /\ returns[n].failed
          /\ ~calls[n].stream
          /\ returns[n].text = SyncDiagnostic(calls[n].model, PROVIDER_ERROR)
    /\ \E n \in 1..Len(returns) :
          /\ returns[n].failed
          /\ calls[n].stream
          /\ returns[n].text = Concat(ProviderChunks(calls[n].model, calls[n].kind))
                               \o StreamDiagnostic(calls[n].model, PROVIDER_ERROR)

\* The model and round of each entry of a transcript.
Structure(tr) == [k \in 1..Len(tr) |-> <<tr[k].model, tr[k].round_num>>]

\* C17: run() resets the session at its start: after any sequence of run()
\* calls the transcript holds only the entries of the latest run (R*M + 1 when
\* it has returned) and user_query is the latest query; no turn of a run is
\* composed from an entry of an earlier run; and two runs with the same
\* configuration and query give transcripts of the same entry count, models
\* and round numbers.
C17_RunResetsSession ==
    pc # "NotStarted" =>
        LET before == runlog.composed_before
        IN /\ user_query = runlog.asked
           /\ Len(transcript) <= Len(composed) - before
           /\ Len(transcript) <= DebateTurns + 1
           /\ pc = "Completed" => Len(transcript) = DebateTurns + 1
           /\ \A n \in (before + 1)..Len(composed) :
                 /\ Len(composed[n].seen) = n - before - 1
                 /\ composed[n].seen = SubSeq(transcript, 1, n - before - 1)
           /\ \A n \in 1..Len(calls) :
                 (calls[n].kind # "summary" /\ GenCount(n) > before) =>
                    calls[n].messages[2].content = "User Query: " \o runlog.asked
           /\ (pc = "Completed" /\ runlog.runs >= 2 /\ runlog.last_query = user_query) =>
                 /\ Len(transcript) = Len(runlog.last_transcript)
                 /\ Structure(transcript) = Structure(runlog.last_transcript)

\* A second run with the query of the first has returned; its transcript has
\* the structure of the first run's and another content.
C17_Witness ==
    /\ pc = "Completed"
    /\ runlog.runs = 2
    /\ runlog.last_query = user_query
    /\ Len(runlog.last_transcript) = DebateTurns + 1
    /\ Len(transcript) = DebateTurns + 1
    /\ Structure(transcript) = Structure(runlog.last_transcript)
    /\ transcript # runlog.last_transcript

\* text ends with suffix.
EndsWith(text, suffix) ==
    /\ Len(text) >= Len(suffix)
    /\ SubSeq(text, Len(text) - Len(suffix) + 1, Len(text)) = suffix

\* The language directive of the run: the language detected from the query.
Directive ==
    "\n\nIMPORTANT: You MUST respond ENTIRELY in " \o detect_language(user_query)
    \o ". Do not switch languages under any circumstances."

\* The first message of call n is a system message that ends with the
\* directive d.
CarriesDirective(n, d) ==
    /\ Len(calls[n].messages) >= 1
    /\ calls[n].messages[1].role = "system"
    /\ EndsWith(calls[n].messages[1].content, d)

\* C18 (as stated): the language is detected once per run from the query and
\* the directive is appended to every system prompt sent to a model: every
\* model call of the run (debate, synthesis and summarization) carries a
\* system message that ends with the directive naming that language.
C18_DirectiveOnEveryCall ==
    \E d \in {Directive} : \A n \in 1..Len(calls) : CarriesDirective(n, d)

\* C18 (amended): every debate and synthesis call of the run carries a system
\* message that ends with the directive naming the language detected from the
\* query; a summarization call carries the fixed summarizer prompt, without
\* the directive.
C18_DirectiveOnEveryTurn ==
    \E d \in {Directive} :
    \A n \in 1..Len(calls) :
        IF calls[n].kind = "summary"
        THEN /\ calls[n].messages[1] = [role |-> "system", content |-> SUMMARIZER_PROMPT]
             /\ ~CarriesDirective(n, d)
        ELSE CarriesDirective(n, d)

\* A completed run on the Spanish query: its debate and synthesis calls carry
\* the Spanish directive, and it made a summarization call.
C18_Witness ==
    /\ pc = "Completed"
    /\ detect_language(user_query) = "Spanish"
    /\ Instances >= 2
    /\ \E n \in 1..Len(calls) : calls[n].kind = "summary"
    /\ \E n \in 1..Len(calls) : calls[n].kind = "synthesis" /\ CarriesDirective(n, Directive)
    /\ \E n \in 1..Len(calls) : calls[n].kind = "debate" /\ CarriesDirective(n, Directive)

\* ceil(n / d) for n >= 0 and d > 0.
CeilDiv(n, d) == (n + d - 1) \div d

\* The sum of ceil(L / 4) + 4 over the messages, L the length of the content.
CeilingCost(messages) ==
    LET total[k \in 0..Len(messages)] ==
            IF k = 0 THEN 0
            ELSE total[k - 1] + CeilDiv(Len(messages[k].content), 4) + 4
    IN total[Len(messages)]

EstimateApplied == probe.applied /\ probe.in.op = "estimate_messages_tokens"

\* C19 (as stated): the estimated cost of a fragment whose content has L >= 0
\* characters is ceil(L / 4) + 4, and the estimated cost of a message list is
\* the sum of the costs of its fragments.
C19_CeilingCost ==
    EstimateApplied => probe.out.cost = CeilingCost(probe.in.msgs)

\* C19 (amended): the estimated cost of a fragment whose content has L >= 0
\* characters is max(1, floor(L / 4)) + 4, that is 5 for L < 8 and
\* floor(L / 4) + 4 from there on, and the estimated cost of a message list is
\* the sum of the costs of its fragments.
C19_FloorCost ==
    EstimateApplied =>
        probe.out.cost =
            LET total[k \in 0..Len(probe.in.msgs)] ==
                    IF k = 0 THEN 0
                    ELSE total[k - 1]
                         + (IF Len(probe.in.msgs[k].content) < 8 THEN 1
                            ELSE Len(probe.in.msgs[k].content) \div 4) + 4
            IN total[Len(probe.in.msgs)]

\* A single fragment of 7 characters is estimated at 5, where ceil(7 / 4) + 4
\* is 6.
C19_SevenCharsCostFive ==
    /\ EstimateApplied
    /\ Len(probe.in.msgs) = 1
    /\ Len(probe.in.msgs[1].content) = 7
    /\ probe.out.cost = 5
    /\ CeilingCost(probe.in.msgs) = 6

\* prepare_messages handed its composition to sliding_window (line 149).
ReachedWindow ==
    /\ probe.applied
    /\ probe.in.op = "prepare_messages"
    /\ probe.out.window_calls = 1

\* The system prompt and the user query, as prepare_messages composes them.
ReservedPair ==
    << [role |-> "system", content |-> probe.in.system_prompt],
       [role |-> "user", content |-> "User Query: " \o probe.in.query] >>

\* C20: whenever prepare_messages reaches sliding_window (the naive
\* composition exceeds context_limit and the summary is not used, or the
\* summary composition still exceeds it), the result is exactly the two
\* reserved fragments, system prompt and user query: nothing of the
\* transcript or of the summary is retained.
C20_WindowKeepsOnlyReserved ==
    /\ ReachedWindow => probe.out.messages = ReservedPair
    /\ (ProbeOverflows /\ ~(probe.in.strategy = "summary" /\ probe.in.has_func)) =>
          probe.out.messages = ReservedPair
    /\ (ProbeOverflows /\ estimate_messages_tokens(ProbeCondensed) > probe.in.limit) =>
          probe.out.messages = ReservedPair

\* The naive composition of a non-empty transcript overflowed under
\* 'sliding_window' with budget left after the reserved fragments: the walk
\* ran, and the one transcript fragment did not fit.
C20_Witness ==
    /\ ReachedWindow
    /\ probe.in.strategy = "sliding_window"
    /\ probe.in.entries # <<>>
    /\ Len(ProbeFragments) = 3
    /\ estimate_messages_tokens(ProbeFragments) > probe.in.limit
    /\ probe.in.limit - estimate_messages_tokens(ReservedPair) - SAFETY_MARGIN > 0
    /\ probe.out.messages = ReservedPair

\* The same through the summary: the summary composition overflowed with
\* budget left after the reserved fragments.
C20_WitnessAfterSummary ==
    /\ ReachedWindow
    /\ probe.out.summarizer_calls = 1
    /\ probe.in.limit - estimate_messages_tokens(ReservedPair) - SAFETY_MARGIN > 0
    /\ probe.out.messages = ReservedPair

\* The non-empty chunks of a sequence, in order.
NonEmpty(chunks) ==
    LET kept[k \in 0..Len(chunks)] ==
            IF k = 0 THEN <<>>
            ELSE IF chunks[k] # "" THEN Append(kept[k - 1], chunks[k]) ELSE kept[k - 1]
    IN kept[Len(chunks)]

\* A step that changes the transcript adds one entry at its end and leaves
\* every existing entry as it was.
AppendsOne ==
    /\ Len(transcript') = Len(transcript) + 1
    /\ SubSeq(transcript', 1, Len(transcript)) = transcript

\* The entry is appended when the model call of its turn has completed: the
\* call in flight is the turn's generation call, it returns in this step, a
\* stream that did not fail has delivered all its chunks, and the entry holds
\* the call's model, the round and what the call returned.
AppendsAfterCall ==
    /\ pc = "Generating"
    /\ inflight.kind \in {"debate", "synthesis"}
    /\ Len(returns') = Len(returns) + 1
    /\ LET entry == transcript'[Len(transcript')]
           ret == returns'[Len(returns')]
       IN /\ entry.model = inflight.model
          /\ entry.round_num = rnd
          /\ entry.content = ret.text
          /\ (inflight.stream /\ ~ret.failed) =>
                /\ inflight.pos = Len(ProviderChunks(inflight.model, inflight.kind))
                /\ ret.text = Concat(NonEmpty(ProviderChunks(inflight.model, inflight.kind)))

\* A model call is issued at the start of the run, after the entry of the
\* turn before was appended (and its turn is composed from the transcript
\* with that entry), or within a turn after its summarization call returned.
IssuesAfterAppend ==
    /\ Len(calls') = Len(calls) + 1
    /\ SubSeq(calls', 1, Len(calls)) = calls
    /\ \/ pc = "NotStarted"
       \/ pc = "Summarizing" /\ transcript' = transcript /\ composed' = composed
       \/ /\ transcript' # transcript
          /\ Len(composed') = Len(composed) + 1
          /\ composed'[Len(composed')].seen = transcript'

C21_Step ==
    /\ transcript' # transcript => (AppendsOne /\ AppendsAfterCall)
    /\ calls' # calls => IssuesAfterAppend

\* While a turn's generation call is in flight, the transcript holds the
\* entries of the turns before it and nothing of this turn.
OneEntryPerFinishedTurn ==
    /\ pc \in {"Generating", "Summarizing"} => Len(transcript) = Len(composed) - 1
    /\ pc = "Completed" => Len(transcript) = Len(composed)
    /\ \A k \in 1..Len(transcript) :
          /\ transcript[k].model = TurnModel(cfg, composed[k].kind, composed[k].idx)
          /\ transcript[k].round_num = composed[k].rnd

\* C21: within one run the transcript is append-only and in call order: a
\* step leaves it unchanged or adds one entry at its end, existing entries
\* never change, the entry of a turn is appended only when that turn's model
\* call has completed (a stream fully drained), and the next model call is
\* issued only after that append.
C21_AppendOnlyInCallOrder == [][C21_Step]_vars /\ []OneEntryPerFinishedTurn

\* A streaming call of the third turn is under way, after two entries were
\* appended, and has delivered a chunk.
C21_Witness ==
    /\ pc = "Generating"
    /\ inflight.stream
    /\ inflight.pos > 0
    /\ Len(transcript) = 2
    /\ Len(composed) = 3
    /\ GenCount(Len(calls)) = 3

\* prepare_messages was applied to an input whose system prompt and user
\* query fit context_limit by themselves.
ReservedFit ==
    /\ probe.applied
    /\ probe.in.op = "prepare_messages"
    /\ estimate_messages_tokens(ReservedPair) <= probe.in.limit

\* C22: for every input where the system prompt and the user query fragment
\* cost at most context_limit, the estimated cost of what prepare_messages
\* returns is at most context_limit, on every path; the result exceeds the
\* limit only when the two reserved fragments alone exceed it.
C22_WithinLimitWhenReservedFit ==
    /\ ReservedFit => estimate_messages_tokens(probe.out.messages) <= probe.in.limit
    /\ (/\ probe.applied
        /\ probe.in.op = "prepare_messages"
        /\ estimate_messages_tokens(probe.out.messages) > probe.in.limit) =>
          /\ estimate_messages_tokens(ReservedPair) > probe.in.limit
          /\ probe.out.messages = ReservedPair

\* The naive composition and the summary composition both overflowed while
\* the reserved fragments fit: the result fits.
C22_Witness ==
    /\ ReservedFit
    /\ probe.in.entries # <<>>
    /\ estimate_messages_tokens(ProbeFragments) > probe.in.limit
    /\ probe.out.summarizer_calls = 1
    /\ estimate_messages_tokens(ProbeCondensed) > probe.in.limit
    /\ estimate_messages_tokens(probe.out.messages) <= probe.in.limit

\* The reserved fragments alone exceed the limit, and so does the result.
C22_WitnessOverflow ==
    /\ probe.applied
    /\ probe.in.op = "prepare_messages"
    /\ probe.in.limit > 0
    /\ estimate_messages_tokens(ReservedPair) > probe.in.limit
    /\ estimate_messages_tokens(probe.out.messages) > probe.in.limit

\* A step in which main_loop calls engine.run.
RunCalled == runlog'.runs = runlog.runs + 1

\* The list has one model per instance.
ModelsMatchInstances == Len(cfg.models) = cfg.instances

\* What ensure_models_match_instances makes of the list of before in a step
\* that reconciles: one model per instance; a position the list had keeps its
\* model (unless validation replaced a missing one); a position it did not
\* have holds the last model of the list, or the default when it was empty.
Reconciled ==
    /\ Len(cfg'.models) = cfg'.instances
    /\ \A k \in 1..Len(cfg'.models) :
          IF k <= Len(cfg.models)
          THEN cfg'.models[k] = cfg.models[k] \/ ~IsAvailable(cfg.models[k], cli.local)
          ELSE cfg'.models[k] = (IF cfg.models = <<>> THEN DEFAULT_FILLER
                                 ELSE cfg'.models[Len(cfg.models)])

C23_Step ==
    /\ RunCalled => (ModelsMatchInstances /\ cfg' = cfg)
    /\ (cli'.pc = "Prompt" /\ cli.pc # "Prompt") => Reconciled
    /\ (cli.pc = "Settings" /\ cfg'.instances # cfg.instances) => Reconciled

\* C23: starting from a configuration with instances >= 1, after any sequence
\* of settings-menu commands the model list has exactly cfg.instances entries
\* at every call of engine.run made by main_loop (and for as long as the run
\* lasts); ensure_models_match_instances pads with the last model, or the
\* default, when the list is too short and keeps the first `instances` models
\* when it is too long.
C23_ModelsReconciledBeforeRun ==
    /\ [][C23_Step]_vars
    /\ [](cli.pc = "Prompt" => ModelsMatchInstances)

\* A run is under way after the menu was used, with a list that was padded
\* from one model to MaxCliInstances.
C23_Witness ==
    /\ cli.pc = "Prompt"
    /\ cli.steps >= 2
    /\ pc = "Generating"
    /\ runlog.runs = 1
    /\ cfg.instances = MaxCliInstances
    /\ Len(cfg.models) = MaxCliInstances
    /\ \A k \in 1..Len(cfg.models) : cfg.models[k] = "mistral"

\* A run on a list that startup cut from three models to one.
C23_WitnessTrimmed ==
    /\ pc = "Generating"
    /\ cli.steps = 0
    /\ cfg.instances = 1
    /\ cfg.models = <<"llama3.2">>
    /\ cli.local # {}

\* C24 (as stated): main_loop never calls engine.run while the most recent
\* validate_and_fix_models check of the configuration returned False, after
\* startup and after every /settings command.
C24_NoRunAfterFailedCheck == [][RunCalled => cli.valid]_vars

\* The part of C24 that is about startup: when the first check returns False
\* main_loop exits, and nothing is run afterwards.
C24_StartupRefuses ==
    /\ [][(cli.pc = "Startup" /\ ~cli'.valid) => cli'.pc = "Exited"]_vars
    /\ [][cli.pc = "Exited" => ~RunCalled]_vars

\* A run is under way although the check made on leaving the settings menu
\* returned False.
C24_RunAfterFailedCheck ==
    /\ cli.pc = "Prompt"
    /\ ~cli.valid
    /\ pc = "Generating"
    /\ runlog.runs = 1
    /\ \E k \in 1..Len(cfg.models) : ~IsAvailable(cfg.models[k], cli.local)

\* The run of configuration c on query q with every call made through
\* chat_sync and no provider failure, turn by turn: after[k] holds the
\* transcript and the calls after k turns, and the turn that comes next.
SyncRun(c, q) ==
    LET language == detect_language(q)
        turns == c.instances * c.rounds + 1
        after[k \in 0..turns] ==
            IF k = 0 THEN [tr |-> <<>>, calls |-> <<>>, next |-> FirstTurn(c)]
            ELSE LET b == after[k - 1]
                     t == b.next
                     sp == TurnPrompt(c, t.kind, t.rnd, t.idx) \o lang_note(language)
                     entries == AsDicts(b.tr)
                     first == FirstCall(c, t.kind, t.rnd, t.idx, sp, q, entries)
                     gen == IF first.kind # "summary" THEN first
                            ELSE GenerationCall(c, t.kind, t.rnd, t.idx,
                                    prepare_messages(sp, q, entries, c.context_limit,
                                        c.context_strategy, TRUE,
                                        [raises |-> FALSE,
                                         text |-> chat_sync(first.model, "summary", FALSE)]).messages)
                     issued == IF first.kind # "summary" THEN <<CallRecord(gen)>>
                               ELSE <<CallRecord(first), CallRecord(gen)>>
                 IN [tr |-> Append(b.tr, DebateEntry(gen.model, t.rnd,
                                                     chat_sync(gen.model, gen.kind, FALSE))),
                     calls |-> b.calls \o issued,
                     next |-> IF t.kind = "synthesis" THEN t ELSE NextTurn(c, t.rnd, t.idx)]
    IN after[turns]

\* A call without the mode it was made in.
Unmoded(call) ==
    [kind |-> call.kind, rnd |-> call.rnd, idx |-> call.idx, model |-> call.model,
     messages |-> call.messages]

UnmodedCalls(cs) == [n \in 1..Len(cs) |-> Unmoded(cs[n])]

\* A completed run in which no provider call failed made the calls, with the
\* messages, and has the transcript of the run through chat_sync.
SameAsSyncRun ==
    (pc = "Completed" /\ NumFaults = 0) =>
        \E ref \in {SyncRun([cfg EXCEPT !.stream_output = FALSE], user_query)} :
            /\ transcript = ref.tr
            /\ UnmodedCalls(calls) = UnmodedCalls(ref.calls)
            /\ result.value = ref.tr[Len(ref.tr)].content

\* A streaming call ends with the concatenation, in order, of every token it
\* yielded (the diagnostic being the last token of a failed one).
StreamedContentIsJoin ==
    (transcript' # transcript /\ inflight.stream) =>
        LET content == transcript'[Len(transcript')].content
            failed == returns'[Len(returns')].failed
        IN content = Concat(IF failed
                            THEN Append(inflight.collected,
                                        StreamDiagnostic(inflight.model, PROVIDER_ERROR))
                            ELSE inflight.collected)

\* A token that arrives is collected and changes nothing else.
TokenOnlyCollected ==
    (pc = "Generating" /\ pc' = "Generating" /\ inflight.stream /\ inflight'.pos = inflight.pos + 1) =>
        /\ UNCHANGED <<cfg, user_query, transcript, rnd, idx, turn, result, composed, calls,
                       returns>>
        /\ inflight'.messages = inflight.messages
        /\ inflight'.model = inflight.model
        /\ \/ inflight'.collected = inflight.collected
           \/ /\ Len(inflight'.collected) = Len(inflight.collected) + 1
              /\ SubSeq(inflight'.collected, 1, Len(inflight.collected)) = inflight.collected

\* C25: in streaming mode the content of a turn is the in-order concatenation
\* of all fragments of the drained sequence and a fragment does nothing but
\* get accumulated; so, when no provider call fails, a run with streaming
\* enabled and a run with streaming disabled issue the same model calls with
\* the same messages and end with the same transcript (models, round numbers
\* and contents).
C25_StreamingEqualsSync ==
    /\ []SameAsSyncRun
    /\ [][StreamedContentIsJoin /\ TokenOnlyCollected]_vars

\* A streaming run of two turns or more with a summarization call has
\* completed without a failure, every entry made of two fragments.
C25_Witness ==
    /\ pc = "Completed"
    /\ cfg.stream_output
    /\ NumFaults = 0
    /\ Len(transcript) >= 3
    /\ \E n \in 1..Len(calls) : calls[n].kind = "summary"
    /\ \A k \in 1..Len(transcript) :
          Len(NonEmpty(ProviderChunks(transcript[k].model, "debate"))) = 2
    /\ transcript = SyncRun([cfg EXCEPT !.stream_output = FALSE], user_query).tr

\* run() appends the entry of the turn whose generation call returns.
ByRunAppend ==
    /\ pc = "Generating"
    /\ inflight.kind \in {"debate", "synthesis"}
    /\ Len(returns') = Len(returns) + 1
    /\ AppendsOne

\* run() clears the transcript at its entry.
ByRunClear == RunCalled /\ transcript' = <<>>

\* The transcript is written by run() alone; a step of the summarization call
\* or of a generation call that goes on leaves it, and the messages the call
\* was given, as they were.
C26_Step ==
    /\ transcript' # transcript => (ByRunAppend \/ ByRunClear)
    /\ pc = "Summarizing" => transcript' = transcript
    /\ (pc = "Generating" /\ pc' = "Generating" /\ calls' = calls) =>
          /\ transcript' = transcript
          /\ inflight'.messages = inflight.messages

\* What a call in flight holds is the message list it was issued with, and
\* what each turn of the run was composed from is still the head of the
\* transcript.
InputsAsGiven ==
    /\ pc \in {"Generating", "Summarizing"} =>
          inflight.messages = calls[Len(calls)].messages
    /\ \A n \in (runlog.composed_before + 1)..Len(composed) :
          /\ Len(composed[n].seen) <= Len(transcript)
          /\ \A k \in 1..Len(composed[n].seen) : composed[n].seen[k] = transcript[k]

\* C26: the transcript has a single writer: composing the messages
\* (prepare_messages, sliding_window, summarize_transcript) and invoking a
\* model leave the engine's transcript, its length, order and entries, and
\* their input message lists unchanged; only run() clears it or appends to it.
C26_SingleWriter == [][C26_Step]_vars /\ []InputsAsGiven

\* In a second run the summarization call of a turn has returned and the
\* turn's generation call is in flight, the transcript still holding the
\* entries the turn was composed from.
C26_Witness ==
    /\ runlog.runs = 2
    /\ pc = "Generating"
    /\ Len(calls) >= 2
    /\ calls[Len(calls) - 1].kind = "summary"
    /\ Len(transcript) >= 2
    /\ composed[Len(composed)].seen = transcript

\* prepare_messages ran the summary strategy and the summarizer raised.
SummarizerRaisedInCompose ==
    /\ probe.applied
    /\ probe.in.op = "prepare_messages"
    /\ estimate_messages_tokens(ProbeFragments) > probe.in.limit
    /\ probe.in.strategy = "summary"
    /\ probe.in.has_func
    /\ probe.in.outcome.raises

\* The raw transcript text of the probe's entries.
ProbeRaw == build_transcript(probe.in.entries)

\* The last n characters of text (all of it when it has fewer), n >= 0.
LastChars(text, n) == SubSeq(text, Max(1, Len(text) - n + 1), Len(text))

\* The third fragment of the result, when it has one.
ThirdContent == probe.out.messages[3].content

\* C27 (as stated): when compose runs the summarized strategy with token
\* limit T and the summarization call raises, the summary used in the third
\* fragment is the truncation marker followed by the last T * 4 characters
\* of the raw transcript text.
C27_FallbackKeepsLastLimitTimesFour ==
    (SummarizerRaisedInCompose /\ Len(probe.out.messages) = 3) =>
        ThirdContent = "Condensed debate summary:\n\n" \o TRUNCATION_MARKER
                       \o LastChars(ProbeRaw, Max(0, probe.in.limit * CHARS_PER_TOKEN))

\* What summarize_transcript falls back to for the compose limit T: with
\* m = (T div 2) * 4, the raw text itself when it has at most m characters;
\* else the marker followed by its last m characters when m > 0, by all of it
\* when m = 0, and by what follows its first -m characters when m < 0.
FallbackFor(raw, T) ==
    LET m == (T \div 2) * CHARS_PER_TOKEN
    IN IF Len(raw) <= m THEN raw
       ELSE IF m > 0 THEN TRUNCATION_MARKER \o LastChars(raw, m)
       ELSE IF m = 0 THEN TRUNCATION_MARKER \o raw
       ELSE TRUNCATION_MARKER \o SubSeq(raw, Min(Len(raw), 0 - m) + 1, Len(raw))

\* C27 (amended): when prepare_messages runs the summary strategy with
\* context_limit T and the summarizer raises, the summary is computed for
\* the limit T div 2: it is the raw transcript text when that has at most
\* (T div 2) * 4 characters, and else the truncation marker followed by its
\* last (T div 2) * 4 characters (for T div 2 <= 0 the slice keeps all of the
\* text, or drops its head); the third fragment holds it when the composition
\* costs at most T, and else the result is the two reserved fragments.
C27_FallbackForHalfLimit ==
    SummarizerRaisedInCompose =>
        \E third \in {[role |-> "user",
                       content |-> "Condensed debate summary:\n\n"
                                   \o FallbackFor(ProbeRaw, probe.in.limit)]} :
            IF estimate_messages_tokens(ReservedPair \o <<third>>) <= probe.in.limit
            THEN probe.out.messages = ReservedPair \o <<third>>
            ELSE probe.out.messages = ReservedPair

\* The summarizer raised, the raw text was longer than (T div 2) * 4 > 0
\* characters, and the third fragment holds the marker and its last
\* (T div 2) * 4 characters.
C27_Witness ==
    /\ SummarizerRaisedInCompose
    /\ Len(probe.out.messages) = 3
    /\ (probe.in.limit \div 2) * CHARS_PER_TOKEN > 0
    /\ Len(ProbeRaw) > (probe.in.limit \div 2) * CHARS_PER_TOKEN
    /\ ThirdContent = "Condensed debate summary:\n\n" \o TRUNCATION_MARKER
                      \o LastChars(ProbeRaw, (probe.in.limit \div 2) * CHARS_PER_TOKEN)

====
